---- MODULE Spec2Model ----
(***************************************************************************)
(* Verification model of apx2sftxn.                                        *)
(*                                                                         *)
(*  Part 1  the queue-driven orchestration: TransactionProcessingEngine.run*)
(*          (application/engines.py), the CoreDB queue repository and the  *)
(*          CoreDB transaction repositories (infrastructure/               *)
(*          sql_repositories.py), the engine chain built by consumer.main  *)
(*          and the event handler (application/event_handlers.py).         *)
(*  Part 2  one pass of LWTransactionSummaryEngine.process: the            *)
(*          per-transaction rule loop with its remove / add signals.       *)
(*  Part 3  LWTransactionSummaryEngine.net_deposits_withdrawals.           *)
(*  Part 4  single rules applied to one input: massage_fi_maturities,      *)
(*          massage_deposits_withdrawals, assign_fx_rate,                  *)
(*          attribute_distribution, the coupon delay, and the dividend     *)
(*          merge of CoreDBTransactionActivityRepository.get.              *)
(*                                                                         *)
(* Specifications: Spec (part 1, with failures and concurrent run loops),  *)
(* FairSpec (part 1, one run loop per engine, no failure, weak fairness),  *)
(* SpecPass (part 2), SpecNet and SpecSign (part 3; SpecSign's legs carry  *)
(* more amounts and fewer key attributes), SpecRules (part 4).             *)
(***************************************************************************)
EXTENDS Integers, Sequences, FiniteSets, TLC

VARIABLES
    \* ---- part 1: orchestration
    queue,      \* queue[s]: the rows of stage s's queue table, in insertion order
    store,      \* store[s]: the rows of stage s's target transaction table
    src,        \* src[k]: number of source transactions APX holds for key k
    pc,         \* pc[w]: position of run loop w inside run()
    items,      \* items[w]: items_to_process still to handle, head = current item
    claimRes,   \* claimRes[w]: queue_update_res of the PENDING->IN_PROGRESS update
    claimed,    \* claimed[w]: row numbers that update flipped (history)
    rawLen,     \* rawLen[w]: len(result) as returned by process()
    result,     \* result[w]: the transactions handed to the target repositories
    ri,         \* ri[w]: index in target_txn_repos / target_queue_repos
    stuck,      \* rows whose claiming pass raised (history): set of <<s, row>>
    done,       \* done[w]: the create() calls, writes then enqueues, completed in the pass (history)
    lastWrite,  \* what the last transaction create() did to its table (history)
    lastPass,   \* the last pass that reached the end of the loop body (history)
    events,     \* number of transaction events handled so far
    failures,   \* number of passes that raised so far
    passes,     \* number of passes started so far
    \* ---- part 2: one pass of LWTransactionSummaryEngine.process
    transactions,       \* the working list
    pidx,               \* loop index i of the per-transaction loop (1-based)
    indices_to_remove,  \* engines.py:756
    new_txns,           \* engines.py:758
    phase,              \* "off" | "loop" | "extend" | "net" | "cleanup" | "done" | "raised"
    batch,              \* the source transactions of the pass (history)
    \* ---- part 3: net_deposits_withdrawals
    legs,       \* the transactions handed to net_deposits_withdrawals
    nidx,       \* loop index of the summing loop
    group_sums, \* group_key -> accumulated group (engines.py:437)
    netOut,     \* the returned list
    legs0,      \* the transactions as they were passed in (history)
    nphase,     \* "off" | "sum" | "done"
    \* ---- part 4: the per-transaction rules, one at a time
    fn,         \* the rule applied: its name, or "off"
    arg,        \* the transaction (or list) the rule is applied to
    ret         \* <<>> before the rule ran, <<outcome>> after

orchVars == <<queue, store, src, pc, items, claimRes, claimed, rawLen, result, ri,
              stuck, done, lastWrite, lastPass, events, failures, passes>>
passVars == <<transactions, pidx, indices_to_remove, new_txns, phase, batch>>
netVars  == <<legs, nidx, group_sums, netOut, legs0, nphase>>
ruleVars == <<fn, arg, ret>>
vars == <<orchVars, passVars, netVars, ruleVars>>

(***************************************************************************)
(* Bounds of the model.                                                    *)
(***************************************************************************)
MaxEvents   == 1    \* transaction events the event handler receives
MaxFailures == 1    \* passes that raise
MaxActive   == 2    \* run loops that are inside run() at the same time
MaxPasses   == 3    \* items the run loops pick up in total
MaxEventPasses == 5 \* the same, in the chain with a changing source
MaxTxns     == 1    \* source transactions per (portfolio, date)
MaxBatch    == 3    \* transactions in one pass of the summary engine
MaxLegs     == 2    \* transactions handed to net_deposits_withdrawals
MaxAmount   == 2    \* largest TradeAmount of an input transaction

\* A column value is <<v>>, or NULL (SQL NULL / Python None), which equals no value.
NULL == <<>>

(***************************************************************************)
(* Part 1.  Orchestration.                                                 *)
(***************************************************************************)

\* consumer.main builds four engines; stage s reads queue s.
\*   1 realized gain/loss   2 transaction activity
\*   3 LW transaction summary   4 APX2SF
NumStages == 4
Stages == 1..NumStages

\* main prepares two ways of running every engine's run(): a Thread and a Timer.
Loops == {"thread", "timer"}
Workers == Stages \X Loops
StageOf(w) == w[1]

Portfolios == {"P1"}
TradeDates == {1}
Keys == Portfolios \X TradeDates

QueueStatus == {"PENDING", "IN_PROGRESS", "SUCCESS", "FAIL", "UNKNOWN"}

TransactionProcessingQueueItem(p, d, st) ==
    [portfolio_code |-> p, trade_date |-> d, queue_status |-> st]

\* target_txn_repos / target_queue_repos of the engines, as main wires them.
TargetTxnRepos(s) == <<s>>

TargetQueueRepos_none(s) == <<>>

TargetQueueRepos(s) == IF s < NumStages THEN <<s + 1>> ELSE <<>>

\* The event handler's target_queue_repos in main: the transaction activity queue.
EventTargetQueues == <<2>>

Matches(row, p, d, st) ==
    /\ row.portfolio_code = p
    /\ row.trade_date = d
    /\ row.queue_status = st

\* CoreDBTransactionProcessingQueueRepository.create: nothing to do when a row with
\* the same key and status exists, else insert.
QueueCreate(q, p, d, st) ==
    IF \E i \in 1..Len(q) : Matches(q[i], p, d, st)
    THEN q
    ELSE Append(q, TransactionProcessingQueueItem(p, d, st))

\* CoreDBTransactionProcessingQueueRepository.update_queue_status: one UPDATE whose
\* WHERE names portfolio_code, trade_date and the old status; every such row changes.
UpdatedRows(q, p, d, old) == {i \in 1..Len(q) : Matches(q[i], p, d, old)}

QueueUpdate(q, p, d, new, old) ==
    [i \in 1..Len(q) |->
        IF Matches(q[i], p, d, old) THEN [q[i] EXCEPT !.queue_status = new] ELSE q[i]]

\* CoreDBTransactionProcessingQueueRepository.get(queue_status): the rows with that
\* status, ORDER BY trade_date, portfolio_code (one portfolio and the dates in
\* ascending order here, so insertion order within a date).
RECURSIVE RowsWith(_, _, _)
RowsWith(q, st, d) ==
    IF q = <<>> THEN <<>>
    ELSE IF Head(q).queue_status = st /\ Head(q).trade_date = d
         THEN <<Head(q)>> \o RowsWith(Tail(q), st, d)
         ELSE RowsWith(Tail(q), st, d)

RECURSIVE QueueGetFrom(_, _, _)
QueueGetFrom(q, st, d) ==
    IF d \notin TradeDates THEN <<>>
    ELSE RowsWith(q, st, d) \o QueueGetFrom(q, st, d + 1)

QueueGet(q, st) == QueueGetFrom(q, st, 1)

(***************************************************************************)
(* Transactions as the orchestration sees them: the identity the engine    *)
(* stamps on them, which attributes exist, and n, the number of the source *)
(* transaction (0 for the engine's placeholder).                           *)
(***************************************************************************)
EngineName(s) ==
    CASE s = 1 -> "APXDBRealizedGainLoss-Engine"
      [] s = 2 -> "APXDBTransactionActivity-Engine"
      [] s = 3 -> "LW-Transaction-Summary-Engine"
      [] s = 4 -> "LW-APX2SF-Transaction-Engine"

\* What the rows of the APX sources carry.  The realized-gain/loss rows carry a
\* CloseDate (populate.py reads txn.CloseDate); the transaction-activity rows are
\* taken to carry one too, the reading under which the CloseDate filter of
\* CoreDBTransactionActivityRepository.create can match them.
SourceAttrs == {"PortfolioCode", "TradeDate", "CloseDate", "TransactionCode"}

\* run(): the artificial single result for an empty process() result.
Placeholder(item, s) ==
    [portfolio_code |-> item.portfolio_code,
     trade_date     |-> item.trade_date,
     attrs          |-> {"portfolio_code", "trade_date", "trade_date_original",
                         "modified_by"},
     modified_by    |-> EngineName(s),
     n              |-> 0]

\* The columns of the row a repository inserts for a transaction.  Stages 1 and 2
\* insert txn.__dict__; stages 3 and 4 insert through txn2table_column_mappings,
\* where the portfolio_code column is fed by the PortfolioCode attribute.
\* item is the queue item the row was written for (history).
TableRow(s, txn) ==
    LET has(a) == a \in txn.attrs
        val(a, v) == IF has(a) THEN <<v>> ELSE NULL
    IN  IF s \in {1, 2}
        THEN [portfolio_code |-> val("portfolio_code", txn.portfolio_code),
              delete_date    |-> val("CloseDate", txn.trade_date),
              trade_date     |-> val("TradeDate", txn.trade_date),
              n              |-> txn.n,
              item           |-> <<txn.portfolio_code, txn.trade_date>>]
        ELSE [portfolio_code |-> val("PortfolioCode", txn.portfolio_code),
              delete_date    |-> val("trade_date_original", txn.trade_date),
              trade_date     |-> val("TradeDate", txn.trade_date),
              n              |-> txn.n,
              item           |-> <<txn.portfolio_code, txn.trade_date>>]

\* The WHERE clause of the delete statement built for one transaction:
\* portfolio_code = txn.portfolio_code AND <date column> = <date>, the date column
\* being CloseDate (stages 1, 2; txn.CloseDate, else txn.trade_date) or
\* trade_date_original (stages 3, 4).  A NULL column never compares equal.
DeleteMatches(row, txn) ==
    /\ row.portfolio_code = <<txn.portfolio_code>>
    /\ row.delete_date = <<txn.trade_date>>

RECURSIVE RowsOf(_, _)
RowsOf(s, txns) ==
    IF txns = <<>> THEN <<>>
    ELSE <<TableRow(s, Head(txns))>> \o RowsOf(s, Tail(txns))

\* <Repository>.create(transactions): delete the old results, then bulk insert.
\* Stages 1 and 2 skip the delete when the table is empty (old_row_count).
TxnCreate(s, table, txns) ==
    LET doomed(row) == \E i \in 1..Len(txns) : DeleteMatches(row, txns[i])
        kept == IF s \in {1, 2} /\ Len(table) = 0
                THEN table
                ELSE SelectSeq(table, LAMBDA row : ~doomed(row))
    IN  kept \o RowsOf(s, txns)

\* <source repository>.get(portfolio_code, trade_date) followed by the engine's
\* own stamping.  Stages 1 and 2 read APX; stage 3 reads the transaction-activity
\* table and stage 4 the transaction-summary table, both filtered on the
\* portfolio_code and trade-date columns (NULL columns never match).
RECURSIVE SourceRows(_, _, _)
SourceRows(table, p, d) ==
    IF table = <<>> THEN <<>>
    ELSE IF Head(table).portfolio_code = <<p>> /\ Head(table).trade_date = <<d>>
         THEN <<Head(table)>> \o SourceRows(Tail(table), p, d)
         ELSE SourceRows(Tail(table), p, d)

EngineAttrs(s) ==
    CASE s \in {1, 2} -> {"portfolio_code", "trade_date", "modified_by", "lw_lineage"}
      [] s = 3 -> {"portfolio_code", "trade_date", "trade_date_original",
                   "modified_by", "lw_lineage"}
      [] s = 4 -> {"portfolio_code", "trade_date_original", "lw_lineage"}

ProcessResult(s, item, apx, tables) ==
    LET p == item.portfolio_code
        d == item.trade_date
        stamp(n) == [portfolio_code |-> p, trade_date |-> d,
                     attrs |-> SourceAttrs \cup EngineAttrs(s),
                     modified_by |-> EngineName(s), n |-> n]
    IN  IF s \in {1, 2}
        THEN [i \in 1..apx[<<p, d>>] |-> stamp(i)]
        ELSE LET rows == SourceRows(tables[s - 1], p, d)
             IN  [i \in 1..Len(rows) |-> stamp(rows[i].n)]

ResultOrPlaceholder_keepsEmpty(raw, item, s) == raw

\* run(), lines 45-53: an empty result is replaced by one placeholder.
ResultOrPlaceholder(raw, item, s) ==
    IF Len(raw) = 0 THEN <<Placeholder(item, s)>> ELSE raw

\* run(), lines 41-43: queue_update_res is stored and never read; process() is
\* called whatever the update returned.
AfterClaim(res) == "process"

AfterProcess_skipsWrites(s) == "success"

\* run(), lines 56-67: where the loop body goes next.
AfterProcess(s) ==
    IF TargetTxnRepos(s) # <<>> THEN "write"
    ELSE IF TargetQueueRepos(s) # <<>> THEN "enqueue" ELSE "success"
AfterWrites(s) == IF TargetQueueRepos(s) # <<>> THEN "enqueue" ELSE "success"

\* History helpers: the rows of a table written for key k, and equality of two
\* row lists as multisets.
RowsFor(table, k) == SelectSeq(table, LAMBDA row : row.item = k)
Occurrences(rows, x) == Cardinality({i \in 1..Len(rows) : rows[i] = x})
SameRows(a, b) ==
    \A x \in {a[i] : i \in 1..Len(a)} \cup {b[i] : i \in 1..Len(b)} :
        Occurrences(a, x) = Occurrences(b, x)

NoWrite == [stage |-> 0]
NoPass  == [stage |-> 0]
KeyOf(item) == <<item.portfolio_code, item.trade_date>>

passOff == /\ transactions = <<>> /\ pidx = 0 /\ indices_to_remove = <<>>
           /\ new_txns = <<>> /\ phase = "off" /\ batch = <<>>
netOff  == /\ legs = <<>> /\ nidx = 0 /\ group_sums = <<>>
           /\ netOut = <<>> /\ legs0 = <<>> /\ nphase = "off"
ruleOff == fn = "off" /\ arg = <<>> /\ ret = <<>>

\* The state main starts the engines in: the first queue holds a PENDING item for
\* each of the dates 1..n, the other queues and all target tables are empty.
InitOrch(ws, n) ==
    /\ queue = [s \in Stages |->
                  IF s = 1
                  THEN [i \in 1..n |-> TransactionProcessingQueueItem("P1", i, "PENDING")]
                  ELSE <<>>]
    /\ store = [s \in Stages |-> <<>>]
    /\ src \in [Keys -> 0..MaxTxns]
    /\ pc = [w \in ws |-> "idle"]
    /\ items = [w \in ws |-> <<>>]
    /\ claimRes = [w \in ws |-> 0]
    /\ claimed = [w \in ws |-> {}]
    /\ rawLen = [w \in ws |-> 0]
    /\ result = [w \in ws |-> <<>>]
    /\ ri = [w \in ws |-> 1]
    /\ done = [w \in ws |-> <<>>]
    /\ stuck = {}
    /\ lastWrite = NoWrite
    /\ lastPass = NoPass
    /\ events = 0
    /\ failures = 0
    /\ passes = 0

Init == InitOrch(Workers, Cardinality(TradeDates)) /\ passOff /\ netOff /\ ruleOff

\* run(), line 32: items_to_process = source_queue_repo.get(PENDING).
Get(w) ==
    LET pending == QueueGet(queue[StageOf(w)], "PENDING")
    IN  /\ pc[w] = "idle"
        /\ pending # <<>>
        /\ passes' = passes + Len(pending)
        /\ items' = [items EXCEPT ![w] = pending]
        /\ pc' = [pc EXCEPT ![w] = "claim"]
        /\ UNCHANGED <<queue, store, src, claimRes, claimed, rawLen, result, ri,
                       stuck, done, lastWrite, lastPass, events, failures>>

\* run(), lines 37-41: PENDING -> IN_PROGRESS.
Claim(w) ==
    LET s == StageOf(w)
        item == Head(items[w])
        rows == UpdatedRows(queue[s], item.portfolio_code, item.trade_date,
                            item.queue_status)
    IN  /\ pc[w] = "claim"
        /\ queue' = [queue EXCEPT ![s] =
                        QueueUpdate(@, item.portfolio_code, item.trade_date,
                                    "IN_PROGRESS", item.queue_status)]
        /\ claimRes' = [claimRes EXCEPT ![w] = Cardinality(rows)]
        /\ claimed' = [claimed EXCEPT ![w] = rows]
        /\ done' = [done EXCEPT ![w] = <<>>]
        /\ pc' = [pc EXCEPT ![w] = AfterClaim(Cardinality(rows))]
        /\ UNCHANGED <<store, src, items, rawLen, result, ri, stuck, lastWrite,
                       lastPass, events, failures, passes>>

\* run(), lines 43-53: result = self.process(item), placeholder when empty.
Process(w) ==
    LET s == StageOf(w)
        item == Head(items[w])
        raw == ProcessResult(s, item, src, store)
    IN  /\ pc[w] = "process"
        /\ rawLen' = [rawLen EXCEPT ![w] = Len(raw)]
        /\ result' = [result EXCEPT ![w] = ResultOrPlaceholder(raw, item, s)]
        /\ ri' = [ri EXCEPT ![w] = 1]
        /\ pc' = [pc EXCEPT ![w] = AfterProcess(s)]
        /\ UNCHANGED <<queue, store, src, items, claimRes, claimed, stuck, done,
                       lastWrite, lastPass, events, failures, passes>>

\* The locals of the loop body go out of scope.
Forget(w) ==
    /\ claimRes' = [claimRes EXCEPT ![w] = 0]
    /\ claimed' = [claimed EXCEPT ![w] = {}]
    /\ rawLen' = [rawLen EXCEPT ![w] = 0]
    /\ result' = [result EXCEPT ![w] = <<>>]
    /\ ri' = [ri EXCEPT ![w] = 1]
    /\ done' = [done EXCEPT ![w] = <<>>]

\* An exception leaves run(): nothing in run() catches, so the loop ends with the
\* item's rows as they are.
Raise(w) ==
    LET s == StageOf(w)
    IN  /\ failures < MaxFailures
        /\ failures' = failures + 1
        /\ stuck' = stuck \cup {<<s, i>> : i \in
                        {j \in claimed[w] : queue[s][j].queue_status = "IN_PROGRESS"}}
        /\ pc' = [pc EXCEPT ![w] = "idle"]
        /\ items' = [items EXCEPT ![w] = <<>>]
        /\ Forget(w)
        /\ UNCHANGED <<queue, store, src, lastWrite, lastPass, events, passes>>

\* process() raises (a source read or a rule fails).
ProcessRaises(w) == pc[w] = "process" /\ Raise(w)

\* A target repository's create() raises.
CreateRaises(w) == pc[w] = "write" /\ Raise(w)

\* run(), lines 56-58: target_txn_repos[ri].create(transactions=result).
Write(w) ==
    LET s == StageOf(w)
        item == Head(items[w])
        repo == TargetTxnRepos(s)[ri[w]]
        after == TxnCreate(repo, store[repo], result[w])
        last == ri[w] = Len(TargetTxnRepos(s))
    IN  /\ pc[w] = "write"
        /\ store' = [store EXCEPT ![repo] = after]
        /\ done' = [done EXCEPT ![w] = Append(@, [op |-> "create", repo |-> repo,
                                                   txns |-> result[w]])]
        /\ lastWrite' = [stage |-> repo, key |-> KeyOf(item),
                         rerun |-> SameRows(RowsFor(store[repo], KeyOf(item)),
                                            RowsOf(repo, result[w])),
                         clean |-> SameRows(RowsFor(after, KeyOf(item)),
                                            RowsOf(repo, result[w]))]
        /\ ri' = [ri EXCEPT ![w] = IF last THEN 1 ELSE @ + 1]
        /\ pc' = [pc EXCEPT ![w] = IF last THEN AfterWrites(s) ELSE "write"]
        /\ UNCHANGED <<queue, src, items, claimRes, claimed, rawLen, result, stuck,
                       lastPass, events, failures, passes>>

\* run(), lines 60-62: target_queue_repos[ri].create(PENDING item).
Enqueue(w) ==
    LET s == StageOf(w)
        item == Head(items[w])
        q == TargetQueueRepos(s)[ri[w]]
        last == ri[w] = Len(TargetQueueRepos(s))
    IN  /\ pc[w] = "enqueue"
        /\ queue' = [queue EXCEPT ![q] =
                        QueueCreate(@, item.portfolio_code, item.trade_date, "PENDING")]
        /\ done' = [done EXCEPT ![w] = Append(@, [op |-> "enqueue", repo |-> q,
                                                   txns |-> <<>>])]
        /\ ri' = [ri EXCEPT ![w] = IF last THEN 1 ELSE @ + 1]
        /\ pc' = [pc EXCEPT ![w] = IF last THEN "success" ELSE "enqueue"]
        /\ UNCHANGED <<store, src, items, claimRes, claimed, rawLen, result, stuck,
                       lastWrite, lastPass, events, failures, passes>>

\* run(), lines 64-67: IN_PROGRESS -> SUCCESS, then the next item of the list.
Success(w) ==
    LET s == StageOf(w)
        item == Head(items[w])
        after == QueueUpdate(queue[s], item.portfolio_code, item.trade_date,
                             "SUCCESS", "IN_PROGRESS")
    IN  /\ pc[w] = "success"
        /\ queue' = [queue EXCEPT ![s] = after]
        /\ lastPass' = [stage |-> s, key |-> KeyOf(item), rawLen |-> rawLen[w],
                        done |-> done[w],
                        marked |-> \E i \in 1..Len(after) :
                                      Matches(after[i], item.portfolio_code,
                                              item.trade_date, "SUCCESS")]
        /\ items' = [items EXCEPT ![w] = Tail(@)]
        /\ pc' = [pc EXCEPT ![w] = IF Tail(items[w]) = <<>> THEN "idle" ELSE "claim"]
        /\ Forget(w)
        /\ UNCHANGED <<store, src, stuck, lastWrite, events, failures, passes>>

RECURSIVE CreateInAll(_, _, _, _)
CreateInAll(qs, targets, p, d) ==
    IF targets = <<>> THEN qs
    ELSE CreateInAll([qs EXCEPT ![Head(targets)] = QueueCreate(@, p, d, "PENDING")],
                     Tail(targets), p, d)

\* TransactionEventHandler.handle: a PENDING item for the event's portfolio and
\* trade date in every target queue.
HandleEvent(k) ==
    /\ events < MaxEvents
    /\ events' = events + 1
    /\ queue' = CreateInAll(queue, EventTargetQueues, k[1], k[2])
    /\ UNCHANGED <<store, src, pc, items, claimRes, claimed, rawLen, result, ri,
                   stuck, done, lastWrite, lastPass, failures, passes>>

\* The bounds on the run loops: how many are inside run() at once, and how many
\* items they pick up in total.
WithinBounds(w) ==
    /\ Cardinality({v \in DOMAIN pc : pc[v] # "idle"}) < MaxActive
    /\ passes + Len(QueueGet(queue[StageOf(w)], "PENDING")) <= MaxPasses

Next ==
    \/ \E w \in Workers : WithinBounds(w) /\ Get(w) /\ UNCHANGED <<passVars, netVars, ruleVars>>
    \/ \E w \in Workers : Claim(w) /\ UNCHANGED <<passVars, netVars, ruleVars>>
    \/ \E w \in Workers : Process(w) /\ UNCHANGED <<passVars, netVars, ruleVars>>
    \/ \E w \in Workers : ProcessRaises(w) /\ UNCHANGED <<passVars, netVars, ruleVars>>
    \/ \E w \in Workers : Write(w) /\ UNCHANGED <<passVars, netVars, ruleVars>>
    \/ \E w \in Workers : CreateRaises(w) /\ UNCHANGED <<passVars, netVars, ruleVars>>
    \/ \E w \in Workers : Enqueue(w) /\ UNCHANGED <<passVars, netVars, ruleVars>>
    \/ \E w \in Workers : Success(w) /\ UNCHANGED <<passVars, netVars, ruleVars>>
    \/ \E k \in Keys : HandleEvent(k) /\ UNCHANGED <<passVars, netVars, ruleVars>>

Spec == Init /\ [][Next]_vars

(***************************************************************************)
(* The chain as main runs it: one run loop per engine, called again and    *)
(* again (while True: for engine in engines: engine.run()), and no         *)
(* exception.                                                              *)
(***************************************************************************)
FairWorkers == Stages \X {"thread"}

FairInit == InitOrch(FairWorkers, Cardinality(TradeDates)) /\ passOff /\ netOff /\ ruleOff

\* main calls the engines' run() one after the other in one thread.
AllIdle == \A v \in DOMAIN pc : pc[v] = "idle"

EngineStep(w) ==
    (AllIdle /\ Get(w)) \/ Claim(w) \/ Process(w) \/ Write(w) \/ Enqueue(w) \/ Success(w)

FairNext ==
    \/ \E w \in FairWorkers : AllIdle /\ Get(w) /\ UNCHANGED <<passVars, netVars, ruleVars>>
    \/ \E w \in FairWorkers : Claim(w) /\ UNCHANGED <<passVars, netVars, ruleVars>>
    \/ \E w \in FairWorkers : Process(w) /\ UNCHANGED <<passVars, netVars, ruleVars>>
    \/ \E w \in FairWorkers : Write(w) /\ UNCHANGED <<passVars, netVars, ruleVars>>
    \/ \E w \in FairWorkers : Enqueue(w) /\ UNCHANGED <<passVars, netVars, ruleVars>>
    \/ \E w \in FairWorkers : Success(w) /\ UNCHANGED <<passVars, netVars, ruleVars>>
    \/ \E k \in Keys : HandleEvent(k) /\ UNCHANGED <<passVars, netVars, ruleVars>>

FairSpec ==
    /\ FairInit
    /\ [][FairNext]_vars
    /\ \A w \in FairWorkers : WF_vars(EngineStep(w) /\ UNCHANGED <<passVars, netVars, ruleVars>>)

(***************************************************************************)
(* The chain with a changing source.  APX writes a transaction for a key   *)
(* (the change-data message with op 'c'), the consumer hands the event to  *)
(* the handler some time later, and the run loops of the engines go on in  *)
(* between.  The key starts without source transactions, so src[k] is also *)
(* the number of changes made, and events the number of them handled.      *)
(***************************************************************************)
ApxChange(k) ==
    /\ src[k] < MaxTxns
    /\ src' = [src EXCEPT ![k] = @ + 1]
    /\ UNCHANGED <<queue, store, pc, items, claimRes, claimed, rawLen, result, ri,
                   stuck, done, lastWrite, lastPass, events, failures, passes>>

\* The consumer delivers the event of a change that was made.
HandleChange(k) == events < src[k] /\ HandleEvent(k)

WithinEventBounds(w) ==
    /\ Cardinality({v \in DOMAIN pc : pc[v] # "idle"}) < MaxActive
    /\ passes + Len(QueueGet(queue[StageOf(w)], "PENDING")) <= MaxEventPasses

InitEvents ==
    /\ InitOrch(Workers, Cardinality(TradeDates))
    /\ src = [k \in Keys |-> 0]
    /\ passOff /\ netOff /\ ruleOff

NextEvents ==
    \/ \E w \in Workers : WithinEventBounds(w) /\ Get(w) /\ UNCHANGED <<passVars, netVars, ruleVars>>
    \/ \E w \in Workers : Claim(w) /\ UNCHANGED <<passVars, netVars, ruleVars>>
    \/ \E w \in Workers : Process(w) /\ UNCHANGED <<passVars, netVars, ruleVars>>
    \/ \E w \in Workers : Write(w) /\ UNCHANGED <<passVars, netVars, ruleVars>>
    \/ \E w \in Workers : Enqueue(w) /\ UNCHANGED <<passVars, netVars, ruleVars>>
    \/ \E w \in Workers : Success(w) /\ UNCHANGED <<passVars, netVars, ruleVars>>
    \/ \E k \in Keys : ApxChange(k) /\ UNCHANGED <<passVars, netVars, ruleVars>>
    \/ \E k \in Keys : HandleChange(k) /\ UNCHANGED <<passVars, netVars, ruleVars>>

SpecEvents == InitEvents /\ [][NextEvents]_vars

\* The same with one run loop per engine, the engines running side by side.
InitOneLoop ==
    /\ InitOrch(FairWorkers, Cardinality(TradeDates))
    /\ src = [k \in Keys |-> 0]
    /\ passOff /\ netOff /\ ruleOff

NextOneLoop ==
    \/ \E w \in FairWorkers : Get(w) /\ UNCHANGED <<passVars, netVars, ruleVars>>
    \/ \E w \in FairWorkers : Claim(w) /\ UNCHANGED <<passVars, netVars, ruleVars>>
    \/ \E w \in FairWorkers : Process(w) /\ UNCHANGED <<passVars, netVars, ruleVars>>
    \/ \E w \in FairWorkers : Write(w) /\ UNCHANGED <<passVars, netVars, ruleVars>>
    \/ \E w \in FairWorkers : Enqueue(w) /\ UNCHANGED <<passVars, netVars, ruleVars>>
    \/ \E w \in FairWorkers : Success(w) /\ UNCHANGED <<passVars, netVars, ruleVars>>
    \/ \E k \in Keys : ApxChange(k) /\ UNCHANGED <<passVars, netVars, ruleVars>>
    \/ \E k \in Keys : HandleChange(k) /\ UNCHANGED <<passVars, netVars, ruleVars>>

SpecOneLoop == InitOneLoop /\ [][NextOneLoop]_vars

(***************************************************************************)
(* Properties of the orchestration.                                        *)
(***************************************************************************)
Working == {"process", "write", "enqueue", "success"}

\* C1: a run loop whose PENDING -> IN_PROGRESS update changed no row skips the
\* item: it is never found processing, writing, enqueueing or marking SUCCESS
\* for it.
C1_LoserSkipsItem ==
    \A w \in DOMAIN pc : pc[w] \in Working => claimRes[w] > 0

\* The steps between process() and the SUCCESS update, in the order of run().
ExpectedSteps(s) ==
    [i \in 1..Len(TargetTxnRepos(s)) |-> <<"create", TargetTxnRepos(s)[i]>>]
    \o [i \in 1..Len(TargetQueueRepos(s)) |-> <<"enqueue", TargetQueueRepos(s)[i]>>]
StepsOf(d) == [i \in 1..Len(d) |-> <<d[i].op, d[i].repo>>]

HasRowFor(table, k) == \E i \in 1..Len(table) : table[i].item = k
HasItemFor(q, k) == \E i \in 1..Len(q) : KeyOf(q[i]) = k

\* C2: an item is set to SUCCESS only after create() on every target transaction
\* repository and then a PENDING item in every target queue, in that order; no
\* state has a SUCCESS item whose key lacks a target write or a downstream item.
C2_SuccessAfterWritesAndEnqueues ==
    /\ \A w \in DOMAIN pc :
          pc[w] = "success" => StepsOf(done[w]) = ExpectedSteps(StageOf(w))
    /\ lastPass.stage # 0 => StepsOf(lastPass.done) = ExpectedSteps(lastPass.stage)
    /\ \A s \in Stages : \A i \in 1..Len(queue[s]) :
          queue[s][i].queue_status = "SUCCESS" =>
             /\ \A j \in 1..Len(TargetTxnRepos(s)) :
                   HasRowFor(store[TargetTxnRepos(s)[j]], KeyOf(queue[s][i]))
             /\ \A j \in 1..Len(TargetQueueRepos(s)) :
                   HasItemFor(queue[TargetQueueRepos(s)[j]], KeyOf(queue[s][i]))

C2_Witness ==
    /\ lastPass.stage = 1
    /\ \E i \in 1..Len(queue[1]) : queue[1][i].queue_status = "SUCCESS"
    /\ HasRowFor(store[1], lastPass.key)
    /\ HasItemFor(queue[2], lastPass.key)

\* C3: a row left IN_PROGRESS by a pass that raised stays IN_PROGRESS whatever
\* the engines do later.
C3_StuckRowStaysInProgress ==
    \A r \in stuck : queue[r[1]][r[2]].queue_status = "IN_PROGRESS"

IdentityOnly(t, k) ==
    /\ t.attrs = {"portfolio_code", "trade_date", "trade_date_original", "modified_by"}
    /\ <<t.portfolio_code, t.trade_date>> = k
    /\ t.n = 0

\* C4: when process() returns an empty list, every target repository receives
\* exactly one placeholder carrying only the identity fields, the downstream
\* PENDING items are still created and the item is still marked SUCCESS.
C4_EmptyResultPlaceholder ==
    /\ \A w \in DOMAIN pc :
          (pc[w] \in {"write", "enqueue", "success"} /\ rawLen[w] = 0) =>
             /\ Len(result[w]) = 1
             /\ IdentityOnly(result[w][1], KeyOf(Head(items[w])))
    /\ (lastPass.stage # 0 /\ lastPass.rawLen = 0) =>
          /\ StepsOf(lastPass.done) = ExpectedSteps(lastPass.stage)
          /\ \A j \in 1..Len(lastPass.done) :
                lastPass.done[j].op = "create" =>
                   /\ Len(lastPass.done[j].txns) = 1
                   /\ IdentityOnly(lastPass.done[j].txns[1], lastPass.key)
          /\ lastPass.marked

C4_Witness ==
    /\ lastPass.stage = 3
    /\ lastPass.rawLen = 0
    /\ lastPass.marked
    /\ \E i \in 1..Len(store[3]) : store[3][i].n = 0 /\ store[3][i].item = lastPass.key
    /\ HasItemFor(queue[4], lastPass.key)

\* C5: a create() that finds in the table exactly the rows it is about to write
\* for the item (a second run over unchanged source data) leaves exactly those
\* rows for the item: no duplicate, no stale row.
C5_RerunLeavesSameRows ==
    (lastWrite.stage # 0 /\ lastWrite.rerun) => lastWrite.clean

SuccessAt(s, k) ==
    \E i \in 1..Len(queue[s]) : KeyOf(queue[s][i]) = k /\ queue[s][i].queue_status = "SUCCESS"

\* Every item of every queue is at SUCCESS and its key is at SUCCESS in the queue
\* of every later stage.
AllSettled ==
    \A s \in Stages : \A i \in 1..Len(queue[s]) :
        /\ queue[s][i].queue_status = "SUCCESS"
        /\ \A t \in Stages : t > s => SuccessAt(t, KeyOf(queue[s][i]))

\* C6: with every engine's run loop scheduled fairly and no processing failure,
\* every PENDING item reaches SUCCESS, and its key reaches SUCCESS in the queue
\* of every later stage.  Queue rows are never deleted, so this is: from some
\* point on every item ever enqueued is settled.
C6_PendingFlowsToSuccess == <>[]AllSettled

C6_Witness ==
    /\ lastPass.stage = NumStages
    /\ \A s \in Stages : SuccessAt(s, lastPass.key)
    /\ events = MaxEvents

(***************************************************************************)
(* Part 3.  LWTransactionSummaryEngine.net_deposits_withdrawals.           *)
(*                                                                         *)
(* A transaction is a record whose fields are its attributes (SimpleName-  *)
(* space); string-valued attributes use None for Python's None.            *)
(***************************************************************************)
None == "None"

\* getattr(txn, a, None)
GetAttr(txn, a) == IF a \in DOMAIN txn THEN txn[a] ELSE None

\* setattr(txn, a, v)
SetAttr(txn, a, v) == [x \in DOMAIN txn \cup {a} |-> IF x = a THEN v ELSE txn[x]]

\* engines.py:432, as written there (the attribute add_fields sets is SecurityID).
group_by_fields ==
    <<"TradeCcy", "PortfolioCode", "Symbol", "SecurityId", "TradeDate", "SettleDate",
      "Comment01">>

\* engines.py:451-452: the frozenset of (field, getattr(txn, field, None)) pairs.
GroupKey(txn) ==
    {<<group_by_fields[i], GetAttr(txn, group_by_fields[i])>> :
        i \in 1..Len(group_by_fields)}

\* engines.py:433.
wd_reverse_fields ==
    <<"Quantity", "TradeAmount", "Commission", "Taxes", "Charges", "TradeAmountLocal">>

\* engines.py:434-436.
sum_fields ==
    <<"Quantity", "TradeAmount", "TradeAmountLocal", "Commission", "Taxes", "Charges",
      "RealizedGain", "NetInterest", "NetDividend", "NetEligDividend",
      "NetNonEligDividend", "NetFgnIncome", "CapGainsDistrib", "RetOfCapital",
      "TotalIncome", "TfsaContribAmt", "RspContribAmt">>

Range(seq) == {seq[i] : i \in 1..Len(seq)}

\* getattr(txn, a, 0.0) of a numeric attribute.
Num(txn, a) == IF a \in DOMAIN txn THEN txn[a] ELSE 0

\* The note replaces what was there.
add_lineage_overwrite(txn, msg) == SetAttr(txn, "lw_lineage", <<msg>>)

\* Transaction.add_lineage (models.py:48-55): lw_lineage is the list of the notes
\* appended so far.
add_lineage(txn, msg) ==
    SetAttr(txn, "lw_lineage",
            IF "lw_lineage" \in DOMAIN txn THEN Append(txn.lw_lineage, msg) ELSE <<msg>>)

\* A leg reversed in its TradeAmount only.
Reversed_amountOnly(txn) ==
    IF txn.TransactionCode = "wd"
    THEN [txn EXCEPT !.TradeAmount = 0 - txn.TradeAmount]
    ELSE txn

\* engines.py:441-445: every field of wd_reverse_fields of a withdrawal is set to
\* (getattr(txn, rf, 0.0) or 0.0) * -1.0; other transactions are left alone.
Reversed(txn) ==
    IF txn.TransactionCode = "wd"
    THEN [a \in DOMAIN txn \cup Range(wd_reverse_fields) |->
             IF a \in Range(wd_reverse_fields) THEN 0 - Num(txn, a) ELSE txn[a]]
    ELSE txn

IsDpWd(txn) == txn.TransactionCode \in {"dp", "wd"}

GroupIndex(gs, key) ==
    IF \E g \in 1..Len(gs) : gs[g].key = key
    THEN CHOOSE g \in 1..Len(gs) : gs[g].key = key
    ELSE 0

\* engines.py:462-470: the first leg of a group lends the group its attributes;
\* every sum field that is missing or falsy becomes 0.0.
OpenGroup(txn) ==
    [a \in DOMAIN txn \cup Range(sum_fields) |->
        IF a \in Range(sum_fields) THEN Num(txn, a) ELSE txn[a]]

\* engines.py:455-456: every sum field of the group grows by the leg's value.
AddSums(gtxn, txn) ==
    [a \in DOMAIN gtxn |->
        IF a \in Range(sum_fields) THEN gtxn[a] + Num(txn, a) ELSE gtxn[a]]

\* engines.py:453-470: add the (already reversed) leg to its group, or open the
\* group with the leg's own attributes.  group_sums keeps insertion order.
AddToGroup(gs, txn) ==
    LET g == GroupIndex(gs, GroupKey(txn))
    IN  IF g # 0
        THEN [gs EXCEPT ![g] =
                [@ EXCEPT !.txn = AddSums(@, txn),
                          !.All_LocalTranKeys = Append(@, txn.LocalTranKey)]]
        ELSE Append(gs, [key |-> GroupKey(txn), txn |-> OpenGroup(txn),
                         All_LocalTranKeys |-> <<txn.LocalTranKey>>])

Abs(x) == IF x < 0 THEN 0 - x ELSE x

\* The sums left with their signs.
AbsSums_signed(gtxn) == gtxn

\* engines.py:495-497: every sum field is replaced by its absolute value.
AbsSums(gtxn) ==
    [a \in DOMAIN gtxn |-> IF a \in Range(sum_fields) THEN Abs(gtxn[a]) ELSE gtxn[a]]

CombinedNote == "Combined the following dp/wd's"

\* engines.py:482-486: the aggregate deposit of a group with a positive sum.
AggregateDeposit(g) ==
    SetAttr(SetAttr(SetAttr(g.txn, "All_LocalTranKeys", g.All_LocalTranKeys),
                    "TransactionCode", "dp"),
            "TransactionName", "Contribution")

\* engines.py:489-505: the aggregate withdrawal of a group with a negative sum;
\* it gets the lineage note when more than one leg went into it.
AggregateWithdrawal(g) ==
    LET t == SetAttr(SetAttr(AbsSums(SetAttr(g.txn, "All_LocalTranKeys",
                                             g.All_LocalTranKeys)),
                             "TransactionCode", "wd"),
                     "TransactionName", "Withdrawal")
    IN  IF Len(g.All_LocalTranKeys) > 1 THEN add_lineage(t, CombinedNote) ELSE t

\* engines.py:477-505: the aggregates of the groups, in insertion order: a dp for a
\* positive sum, a wd carrying the absolute values for a negative sum, nothing for
\* a zero sum.
RECURSIVE Aggregates(_)
Aggregates(gs) ==
    IF gs = <<>> THEN <<>>
    ELSE LET g == Head(gs)
             one == IF g.txn.TradeAmount > 0 THEN <<AggregateDeposit(g)>>
                    ELSE IF g.txn.TradeAmount < 0 THEN <<AggregateWithdrawal(g)>>
                    ELSE <<>>
         IN  one \o Aggregates(Tail(gs))

\* The inputs of the model: legs that depart from the base values in at most one
\* of the attributes the grouping is meant to use.
KeyAttrs == {"TradeCcy", "PortfolioCode", "Symbol", "SecurityID", "TradeDate",
             "SettleDate", "Comment01"}
Departures == {{}} \cup {{a} : a \in KeyAttrs}

Leg(dep, code, amt, n) ==
    [TransactionCode |-> code,
     TradeAmount     |-> amt,
     TradeCcy        |-> IF "TradeCcy" \in dep THEN "USD" ELSE "CAD",
     PortfolioCode   |-> IF "PortfolioCode" \in dep THEN "P2" ELSE "P1",
     Symbol          |-> IF "Symbol" \in dep THEN "cash" ELSE "client",
     SecurityID      |-> IF "SecurityID" \in dep THEN "S2" ELSE "S1",
     TradeDate       |-> IF "TradeDate" \in dep THEN 2 ELSE 1,
     SettleDate      |-> IF "SettleDate" \in dep THEN 2 ELSE 1,
     Comment01       |-> IF "Comment01" \in dep THEN "CONTRIBUTION" ELSE None,
     LocalTranKey    |-> n]

LegInputs ==
    {[dep |-> d, code |-> c, amt |-> a] :
        d \in Departures, c \in {"dp", "wd", "by"}, a \in 1..MaxAmount}

orchOff ==
    /\ queue = <<>> /\ store = <<>> /\ src = <<>> /\ pc = <<>> /\ items = <<>>
    /\ claimRes = <<>> /\ claimed = <<>> /\ rawLen = <<>> /\ result = <<>>
    /\ ri = <<>> /\ stuck = {} /\ done = <<>> /\ lastWrite = NoWrite
    /\ lastPass = NoPass /\ events = 0 /\ failures = 0 /\ passes = 0

InitNet ==
    /\ orchOff /\ passOff /\ ruleOff
    /\ \E n \in 1..MaxLegs : \E in \in [1..n -> LegInputs] :
          legs = [i \in 1..n |-> Leg(in[i].dep, in[i].code, in[i].amt, i)]
    /\ legs0 = legs
    /\ nidx = 1
    /\ group_sums = <<>>
    /\ netOut = <<>>
    /\ nphase = "sum"

\* engines.py:440-470, one iteration of the loop.
NetSum ==
    /\ nphase = "sum"
    /\ nidx <= Len(legs)
    /\ LET txn == Reversed(legs[nidx])
       IN  /\ legs' = [legs EXCEPT ![nidx] = txn]
           /\ group_sums' = IF IsDpWd(txn) THEN AddToGroup(group_sums, txn)
                            ELSE group_sums
    /\ nidx' = nidx + 1
    /\ UNCHANGED <<netOut, legs0, nphase>>

\* engines.py:475-507: drop the dp/wd legs, append the aggregates, return.
NetEmit ==
    /\ nphase = "sum"
    /\ nidx > Len(legs)
    /\ netOut' = SelectSeq(legs, LAMBDA t : ~IsDpWd(t)) \o Aggregates(group_sums)
    /\ nphase' = "done"
    /\ UNCHANGED <<legs, nidx, group_sums, legs0>>

NextNet ==
    \/ NetSum /\ UNCHANGED <<orchVars, passVars, ruleVars>>
    \/ NetEmit /\ UNCHANGED <<orchVars, passVars, ruleVars>>

SpecNet == InitNet /\ [][NextNet]_vars

\* Two legs were summed into the same aggregate.
SummedTogether(i, j) ==
    \E g \in 1..Len(group_sums) :
        \E a, b \in 1..Len(group_sums[g].All_LocalTranKeys) :
            /\ group_sums[g].All_LocalTranKeys[a] = legs[i].LocalTranKey
            /\ group_sums[g].All_LocalTranKeys[b] = legs[j].LocalTranKey

AgreeOnKey(t, u) == \A a \in KeyAttrs : t[a] = u[a]

\* C10: two dp/wd legs are summed into the same aggregate exactly when they agree
\* on currency, portfolio, symbol, security, trade date, settle date and comment;
\* legs that differ in any one of them, the security id included, never merge.
C10_MergeIffKeyAgrees ==
    nphase = "done" =>
       \A i, j \in 1..Len(legs) :
          (i # j /\ IsDpWd(legs[i]) /\ IsDpWd(legs[j])) =>
             (SummedTogether(i, j) <=> AgreeOnKey(legs[i], legs[j]))

\* net_deposits_withdrawals as a whole (engines.py:430-507).
RECURSIVE GroupSums(_, _)
GroupSums(gs, txns) ==
    IF txns = <<>> THEN gs
    ELSE GroupSums(IF IsDpWd(Head(txns)) THEN AddToGroup(gs, Head(txns)) ELSE gs,
                   Tail(txns))

net_deposits_withdrawals(txns) ==
    LET rev == [i \in 1..Len(txns) |-> Reversed(txns[i])]
    IN  SelectSeq(rev, LAMBDA t : ~IsDpWd(t)) \o Aggregates(GroupSums(<<>>, rev))

\* Legs that also carry a quantity and a realized gain (which may be a loss); they
\* carry no Commission, Taxes, Charges or TradeAmountLocal attribute.
SignLeg(in, n) ==
    [a \in DOMAIN Leg(in.dep, in.code, in.amt, n) \cup {"Quantity", "RealizedGain"} |->
        IF a = "Quantity" THEN 10 * in.amt
        ELSE IF a = "RealizedGain" THEN in.gain
        ELSE Leg(in.dep, in.code, in.amt, n)[a]]

SignInputs ==
    {[dep |-> d, code |-> c, amt |-> a, gain |-> g] :
        d \in {{}, {"TradeDate"}}, c \in {"dp", "wd", "by"}, a \in 1..MaxAmount,
        g \in {0 - 1, 1}}

InitSign ==
    /\ orchOff /\ passOff /\ ruleOff
    /\ \E n \in 1..MaxLegs : \E in \in [1..n -> SignInputs] :
          legs = [i \in 1..n |-> SignLeg(in[i], i)]
    /\ legs0 = legs
    /\ nidx = 1
    /\ group_sums = <<>>
    /\ netOut = <<>>
    /\ nphase = "sum"

SpecSign == InitSign /\ [][NextNet]_vars

\* The dp/wd legs passed in that carry the group key.
GroupLegs(key) ==
    {i \in 1..Len(legs0) : IsDpWd(legs0[i]) /\ GroupKey(legs0[i]) = key}

\* The value a leg passed in is meant to contribute to field f of its group.
Signed(t, f) ==
    IF t.TransactionCode = "wd" /\ f \in Range(wd_reverse_fields)
    THEN 0 - Num(t, f) ELSE Num(t, f)

RECURSIVE SumOver(_, _)
SumOver(S, f) ==
    IF S = {} THEN 0
    ELSE LET i == CHOOSE x \in S : TRUE
         IN  Signed(legs0[i], f) + SumOver(S \ {i}, f)

IsAggregate(t) == "All_LocalTranKeys" \in DOMAIN t

\* C11: every wd leg the loop has handled holds, in each field of the reversal
\* set, the negation of the value it was passed in with; each group's sums are
\* the sums of these once-negated values (and of the untouched values of the
\* other fields and legs); and every summed field of an emitted aggregate
\* withdrawal is non-negative.
C11_WithdrawalSignLaw ==
    /\ \A i \in 1..(nidx - 1) :
          legs0[i].TransactionCode = "wd" =>
             \A rf \in Range(wd_reverse_fields) : Num(legs[i], rf) = 0 - Num(legs0[i], rf)
    /\ \A g \in 1..Len(group_sums) : \A f \in Range(sum_fields) :
          group_sums[g].txn[f] =
             SumOver({i \in GroupLegs(group_sums[g].key) : i < nidx}, f)
    /\ nphase = "done" =>
          \A k \in 1..Len(netOut) :
             (IsAggregate(netOut[k]) /\ netOut[k].TransactionCode = "wd") =>
                \A f \in Range(sum_fields) : netOut[k][f] >= 0

\* A withdrawal aggregate of two legs whose summed quantity and realized gain were
\* negative before the absolute values were taken.
C11_Witness ==
    /\ nphase = "done"
    /\ \E g \in 1..Len(group_sums) : \E k \in 1..Len(netOut) :
          /\ Len(group_sums[g].All_LocalTranKeys) > 1
          /\ group_sums[g].txn.Quantity < 0
          /\ group_sums[g].txn.RealizedGain < 0
          /\ IsAggregate(netOut[k])
          /\ netOut[k].All_LocalTranKeys = group_sums[g].All_LocalTranKeys
          /\ netOut[k].TransactionCode = "wd"
          /\ netOut[k].RealizedGain > 0

\* The rows of the output that stand for the group with the given key.
RowsOfGroup(key) ==
    {k \in 1..Len(netOut) : IsDpWd(netOut[k]) /\ GroupKey(netOut[k]) = key}

\* The net of a group: its deposits minus its withdrawals, as passed in.
NetOf(key) == SumOver(GroupLegs(key), "TradeAmount")

\* C12: in the returned list every dp/wd row is an aggregate (no leg that was
\* passed in remains); a group whose net is positive has exactly one row, a dp
\* with TradeAmount = net; a group whose net is negative has exactly one row, a wd
\* with TradeAmount = |net|; no group has both a dp and a wd row.
C12_OneAggregatePerGroup ==
    nphase = "done" =>
       /\ \A k \in 1..Len(netOut) : IsDpWd(netOut[k]) => IsAggregate(netOut[k])
       /\ \A i \in 1..Len(legs0) : IsDpWd(legs0[i]) =>
             LET key  == GroupKey(legs0[i])
                 net  == NetOf(key)
                 rows == RowsOfGroup(key)
             IN  /\ Cardinality(rows) <= 1
                 /\ net > 0 => \E k \in rows : /\ netOut[k].TransactionCode = "dp"
                                               /\ netOut[k].TradeAmount = net
                 /\ net < 0 => \E k \in rows : /\ netOut[k].TransactionCode = "wd"
                                               /\ netOut[k].TradeAmount = 0 - net

\* A deposit of 2 and a withdrawal of 1 in one group came out as one dp of 1 and
\* no wd.
C12_Witness ==
    /\ nphase = "done"
    /\ Len(legs0) = 2
    /\ legs0[1].TransactionCode = "dp" /\ legs0[1].TradeAmount = 2
    /\ legs0[2].TransactionCode = "wd" /\ legs0[2].TradeAmount = 1
    /\ GroupKey(legs0[1]) = GroupKey(legs0[2])
    /\ Len(netOut) = 1
    /\ netOut[1].TransactionCode = "dp" /\ netOut[1].TradeAmount = 1

HasNote(t, msg) ==
    "lw_lineage" \in DOMAIN t /\ \E n \in 1..Len(t.lw_lineage) : t.lw_lineage[n] = msg

\* C13: every aggregate row of the returned list, dp or wd, carries the lineage
\* note that lists the merged keys exactly when more than one leg went into it.
C13_LineageOnMergedAggregates ==
    nphase = "done" =>
       \A k \in 1..Len(netOut) :
          IsAggregate(netOut[k]) =>
             (HasNote(netOut[k], CombinedNote) <=> Len(netOut[k].All_LocalTranKeys) > 1)

(***************************************************************************)
(* Part 2.  One pass of LWTransactionSummaryEngine.process.                *)
(*                                                                         *)
(* Besides its attributes a transaction carries HasAppraisal (whether the  *)
(* previous business day's appraisal holds a row for it) and three history *)
(* counters: how often the per-transaction rules, the netting step and the *)
(* final cleanup were applied to the object.                               *)
(***************************************************************************)
Txn(code, sec1, sec2, sym1, sym2, secid2, appraisal, matured) ==
    [TransactionCode  |-> code,
     SecTypeBaseCode1 |-> sec1,
     SecTypeBaseCode2 |-> sec2,
     Symbol1          |-> sym1,
     Symbol2          |-> sym2,
     SecurityID1      |-> "S1",
     SecurityID2      |-> secid2,
     TradeAmount      |-> 1,
     TradeAmountLocal |-> 1,
     TradeDate        |-> 1,
     SettleDate       |-> 1,
     MaturityDate1    |-> IF matured THEN 1 ELSE 2,
     PortfolioCode    |-> "P1",
     Comment01        |-> None,
     HasAppraisal     |-> appraisal,
     PortfolioTransactionID |-> 0,
     TranID           |-> 0,
     LotNumber        |-> 0,
     UnitPrice        |-> 1,
     rules            |-> 0,
     netted           |-> 0,
     cleaned          |-> 0]

\* The source transactions a pass is run on.
TxnShapes ==
    { Txn("dp", "ca", "ca", "cash", "client", "S9", FALSE, FALSE),  \* client deposit
      Txn("wd", "ca", "ca", "cash", "client", "S9", FALSE, FALSE),  \* client withdrawal
      Txn("dp", "ca", "aw", "cash", "dvwash", None, FALSE, FALSE),  \* wash leg
      Txn("dp", "ca", "ca", "cash", None, None, FALSE, FALSE),      \* no second security
      Txn("sl", "ca", "ca", "cash", "cash", "S1", FALSE, FALSE),    \* cash against cash
      Txn("sl", "st", "ca", "TBILL", "cash", "S9", TRUE, FALSE),    \* short-term sale
      Txn("sl", "st", "ca", "TBILL", "cash", "S9", TRUE, TRUE),     \* ... at maturity
      Txn("sl", "st", "ca", "TBILL", "cash", "S9", FALSE, FALSE),   \* ... no appraisal row
      Txn("by", "cs", "ca", "ABC", "cash", "S9", FALSE, FALSE),     \* equity purchase
      Txn("lo", "cs", "ca", "ABC", "cash", "S9", FALSE, FALSE) }    \* long-out, no appraisal

\* Python's  a in ('b')  on two strings: a is a substring of b.
ProperSubstrings == {<<"lie", "client">>, <<"us", "cust">>, <<"d", "dv">>}
InStr(a, b) == a = b \/ a = "" \/ <<a, b>> \in ProperSubstrings

\* str.lower() on the symbols of the model.
Lower(s) == CASE s = "CLIENT" -> "client" [] s = "CUST" -> "cust" [] OTHER -> s

Outcome(t, sig) == [txn |-> t, signal |-> sig, new |-> <<>>]

\* massage_deposits_withdrawals (engines.py:141-193).  None.lower() raises
\* AttributeError.
massage_deposits_withdrawals(t) ==
    LET copy(x) == add_lineage([x EXCEPT !.Symbol1 = x.Symbol2,
                                         !.SecurityID1 = x.SecurityID2],
                               "copied values from security2 to security1")
        recode(code) == [add_lineage(t, "changed TransactionCode")
                            EXCEPT !.TransactionCode = code]
    IN  IF t.Symbol2 = None THEN Outcome(t, "error")
        ELSE IF InStr(Lower(t.Symbol2), "client") THEN Outcome(copy(t), "none")
        ELSE IF Lower(t.Symbol2) \in {"whnrtax", "whfedtax"}
             THEN Outcome(copy(add_lineage([t EXCEPT !.TransactionCode = "wt"],
                                           "updated TransactionCode to wt")), "none")
        ELSE IF Lower(t.Symbol1) \in {"whnrtax", "whfedtax", "dvshrt", "dvwash", "lw.mfr"}
             THEN Outcome(t, "remove")
        ELSE IF Lower(t.Symbol1) \in {"manfee", "manrfee"}
             THEN IF t.SecurityID2 = None THEN Outcome(t, "remove")
                  ELSE Outcome(recode("ep"), "none")
        ELSE IF InStr(Lower(t.Symbol1), "cust")
             THEN Outcome(recode("ex"), "none")
        ELSE IF t.Symbol1 = "cash" /\ t.SecTypeBaseCode2 = "aw" THEN Outcome(t, "remove")
        ELSE IF t.Symbol1 = "income" /\ t.SecurityID2 = None /\ t.SecTypeBaseCode2 = "aw"
             THEN Outcome(t, "remove")
        ELSE IF t.Symbol1 = "income" /\ t.Symbol2 = "cash" /\ t.SecTypeBaseCode2 = "aw"
             THEN Outcome([add_lineage(t, "changed Symbol1 to client")
                              EXCEPT !.Symbol1 = "client"], "none")
        ELSE Outcome(t, "remove")

\* setattr for several attributes at once; delattr for those that exist.
SetAttrs(txn, r) ==
    [x \in DOMAIN txn \cup DOMAIN r |-> IF x \in DOMAIN r THEN r[x] ELSE txn[x]]
DelAttrs(txn, S) == [x \in DOMAIN txn \ S |-> txn[x]]

\* The key without the lot.
LocalTranKeyOf_noLot(t, symbol, sfx) ==
    <<t.PortfolioCode, t.TradeDate, t.SettleDate, symbol, t.PortfolioTransactionID,
      t.TranID, sfx>>

\* engines.py:313 and 363: the f-string
\*   {PortfolioCode}_{TradeDate}_{SettleDate}_{symbol}_{PortfolioTransactionID}_
\*   {TranID}_{LotNumber}{suffix}
\* as the tuple of its parts.  The three ids are integers and the suffix is _A or
\* _A_B, so two strings are equal only if the ids and the suffix are.
LocalTranKeyOf(t, symbol, sfx) ==
    <<t.PortfolioCode, t.TradeDate, t.SettleDate, symbol, t.PortfolioTransactionID,
      t.TranID, t.LotNumber, sfx>>

\* add_fields (engines.py:273-328), the attributes later steps read, and every
\* lineage note it appends for them.
add_fields(t) ==
    LET a == SetAttrs(t, [SecurityID |-> t.SecurityID1, Symbol |-> t.Symbol1,
                          PricePerUnit |-> t.UnitPrice])
        b == IF "RptCostBasis" \in DOMAIN a
             THEN add_lineage(SetAttr(a, "CostBasis", a.RptCostBasis),
                              "Assigned CostBasis as RptCostBasis")
             ELSE a
        c == IF "LocalCostBasis" \in DOMAIN b
             THEN add_lineage(SetAttr(b, "CostBasisLocal", b.LocalCostBasis),
                              "Assigned CostBasisLocal as LocalCostBasis")
             ELSE b
        e == IF "LocalTranKeySuffix" \in DOMAIN c THEN c
             ELSE add_lineage(SetAttr(c, "LocalTranKeySuffix", "_A"),
                              "Assigned LocalTranKeySuffix as default=_A")
        f == SetAttr(e, "LocalTranKey", LocalTranKeyOf(e, e.Symbol, e.LocalTranKeySuffix))
    IN  add_lineage(f, "Assigned fields")

\* engines.py:340-342.  The amounts of the model are integers and the inputs are
\* chosen with TradeAmount a multiple of TradeAmountLocal, so the quotient is exact.
FxRateOf(t) ==
    IF t.TradeAmountLocal # 0 THEN t.TradeAmount \div t.TradeAmountLocal ELSE 1

\* engines.py:336-364: the interest component, a copy of the sale.
InterestComponent(t) ==
    LET income_local == t.TradeAmountLocal - t.LocalCostBasis
        fx_rate == FxRateOf(t)
        income == fx_rate * income_local
        n0 == SetAttrs(t, [TradeDateFX |-> fx_rate, TransactionCode |-> "in",
                           TradeAmount |-> income, TradeAmountLocal |-> income_local,
                           RealizedGain |-> 0, Commission |-> 0,
                           NetInterest |-> income, NetDividend |-> 0,
                           NetEligDividend |-> 0, NetNonEligDividend |-> 0,
                           NetFgnIncome |-> 0, CapGainsDistrib |-> 0,
                           TotalIncome |-> income, LocalTranKeySuffix |-> "_A_B",
                           LocalTranKey |-> LocalTranKeyOf(t, t.Symbol1, "_A_B"),
                           rules |-> 0, netted |-> 0, cleaned |-> 0])
        n1 == DelAttrs(n0, {"PricePerUnit", "PricePerUnitLocal", "CostPerUnit",
                            "CostPerUnitLocal", "Quantity"})
    IN  add_lineage(n1, "Created as the interest component")

\* engines.py:365-385: what is left in the sale once the interest is carved out.
\* Before maturity TradeAmountLocal is computed from the TradeAmount that was
\* just reduced (line 384).
SaleAfterSplit(t) ==
    LET income_local == t.TradeAmountLocal - t.LocalCostBasis
        income == FxRateOf(t) * income_local
        p1 == add_lineage(t, "carved out interest component")
        p2 == add_lineage(SetAttr(p1, "RealizedGain",
                                  t.TradeAmount - t.RptCostBasis - income),
                          "Assigned RealizedGain")
    IN  IF t.TradeDate >= t.MaturityDate1
        THEN add_lineage(SetAttrs(p2, [PricePerUnit |-> 100,
                                       TradeAmount |-> t.RptCostBasis,
                                       TransactionCode |-> "mt", RealizedGain |-> 0]),
                         "Detected as maturity")
        ELSE add_lineage(SetAttrs(p2, [TradeAmount |-> t.TradeAmount - income,
                                       TradeAmountLocal |->
                                           (t.TradeAmount - income) - income_local]),
                         "Subtracted income")

\* massage_fi_maturities (engines.py:330-394): the sale of a short-term security
\* with a cost basis gets its interest carved out as a new 'in' transaction, handed
\* back through TransactionShouldBeAddedException; any other sale at or after the
\* maturity date becomes a maturity.
massage_fi_maturities(t) ==
    IF t.TransactionCode # "sl" THEN Outcome(t, "none")
    ELSE IF t.SecTypeBaseCode1 = "st"
    THEN IF "RptCostBasis" \in DOMAIN t
         THEN [txn |-> SaleAfterSplit(t), signal |-> "add",
               new |-> <<InterestComponent(t)>>]
         ELSE Outcome(t, "none")
    ELSE IF t.TradeDate >= t.MaturityDate1
         THEN Outcome(add_lineage([t EXCEPT !.TransactionCode = "mt"],
                                  "Detected as maturity"), "none")
         ELSE Outcome(t, "none")

\* The body of the try block for one transaction (engines.py:762-883), in the
\* order of the code.  signal: "none", "remove" (TransactionShouldBeRemoved-
\* Exception), "add" (TransactionShouldBeAddedException) or "error" (any other
\* exception).  prev_bday_cost_repo.supplement raises AttributeError when the
\* appraisal has no row (sql_repositories.py:132).
ApplyRules(t0) ==
    LET t == [t0 EXCEPT !.rules = @ + 1]
        needsCost == (t.SecTypeBaseCode1 = "st" /\ t.TransactionCode = "sl")
                     \/ t.TransactionCode = "lo"
        t1 == IF needsCost THEN SetAttrs(t, [LocalCostBasis |-> 1, RptCostBasis |-> 1])
              ELSE t
        dw == IF t1.TransactionCode \in {"dp", "wd"}
              THEN massage_deposits_withdrawals(t1) ELSE Outcome(t1, "none")
        t2 == dw.txn
    IN  IF needsCost /\ ~t.HasAppraisal THEN Outcome(t, "error")
        ELSE IF dw.signal # "none" THEN dw
        ELSE IF t2.Symbol1 = "cash" /\ t2.Symbol2 = "cash"
                /\ t2.TransactionCode \in {"sl", "by"}
             THEN Outcome(t2, "remove")
        ELSE IF t2.SecTypeBaseCode1 = "st" /\ t2.TransactionCode = "sa"
                /\ t2.TradeAmount = 0
             THEN Outcome(t2, "remove")
        ELSE IF t2.TransactionCode \in {"dr", "dv"} /\ t2.SecTypeBaseCode2 = "aw"
                /\ t2.SecurityID2 = None
             THEN Outcome(t2, "remove")
        ELSE massage_fi_maturities(add_fields(t2))

\* del transactions[i]
RemoveAt(txns, i) ==
    [j \in 1..(Len(txns) - (IF i \in 1..Len(txns) THEN 1 ELSE 0)) |->
        IF j < i THEN txns[j] ELSE txns[j + 1]]

RECURSIVE RemoveAll_forward(_, _)
RemoveAll_forward(txns, idx) ==
    IF idx = <<>> THEN txns
    ELSE RemoveAll_forward(RemoveAt(txns, Head(idx)), Tail(idx))

\* engines.py:891-892: for i in reversed(indices_to_remove): del transactions[i]
RECURSIVE RemoveAll(_, _)
RemoveAll(txns, idx) ==
    IF idx = <<>> THEN txns
    ELSE RemoveAll(RemoveAt(txns, idx[Len(idx)]), SubSeq(idx, 1, Len(idx) - 1))

HeldAside_inline(txns, new, t) == [transactions |-> Append(txns, t), new_txns |-> new]

\* engines.py:757-758, 885-886: a transaction handed back by
\* TransactionShouldBeAddedException goes to new_txns, not to the list the loop
\* iterates.
HeldAside(txns, new, t) == [transactions |-> txns, new_txns |-> Append(new, t)]

Counted(txns, f) == [i \in 1..Len(txns) |-> [txns[i] EXCEPT ![f] = @ + 1]]

InitPass ==
    /\ orchOff /\ netOff /\ ruleOff
    /\ \E n \in 1..MaxBatch : \E in \in [1..n -> TxnShapes] :
          batch = [i \in 1..n |-> [in[i] EXCEPT !.PortfolioTransactionID = i]]
    /\ transactions = batch
    /\ pidx = 1
    /\ indices_to_remove = <<>>
    /\ new_txns = <<>>
    /\ phase = "loop"

\* engines.py:760-888: one iteration of the loop whose try body ends normally or
\* with one of the two signals.
PassRule ==
    /\ phase = "loop"
    /\ pidx <= Len(transactions)
    /\ LET r == ApplyRules(transactions[pidx])
           kept == [transactions EXCEPT ![pidx] = r.txn]
           held == HeldAside(kept, new_txns, r.new[1])
       IN  /\ r.signal # "error"
           /\ transactions' = IF r.signal = "add" THEN held.transactions ELSE kept
           /\ new_txns' = IF r.signal = "add" THEN held.new_txns ELSE new_txns
           /\ indices_to_remove' = IF r.signal = "remove"
                                   THEN Append(indices_to_remove, pidx)
                                   ELSE indices_to_remove
    /\ pidx' = pidx + 1
    /\ UNCHANGED <<phase, batch>>

\* engines.py:760-888: the try body raises something else; no handler matches, the
\* exception leaves process() and nothing is returned.
PassRaises ==
    /\ phase = "loop"
    /\ pidx <= Len(transactions)
    /\ ApplyRules(transactions[pidx]).signal = "error"
    /\ phase' = "raised"
    /\ UNCHANGED <<transactions, pidx, indices_to_remove, new_txns, batch>>

\* engines.py:890-892 (100a).
PassRemove ==
    /\ phase = "loop"
    /\ pidx > Len(transactions)
    /\ transactions' = RemoveAll(transactions, indices_to_remove)
    /\ phase' = "extend"
    /\ UNCHANGED <<pidx, indices_to_remove, new_txns, batch>>

\* engines.py:894-895 (100b).
PassExtend ==
    /\ phase = "extend"
    /\ transactions' = transactions \o new_txns
    /\ phase' = "net"
    /\ UNCHANGED <<pidx, indices_to_remove, new_txns, batch>>

\* engines.py:901 (101).
PassNet ==
    /\ phase = "net"
    /\ transactions' = net_deposits_withdrawals(Counted(transactions, "netted"))
    /\ phase' = "cleanup"
    /\ UNCHANGED <<pidx, indices_to_remove, new_txns, batch>>

\* engines.py:907-933 (102): the cleanup loop over every transaction, then return.
PassCleanup ==
    /\ phase = "cleanup"
    /\ transactions' = Counted(transactions, "cleaned")
    /\ phase' = "done"
    /\ UNCHANGED <<pidx, indices_to_remove, new_txns, batch>>

NextPass ==
    \/ PassRule /\ UNCHANGED <<orchVars, netVars, ruleVars>>
    \/ PassRaises /\ UNCHANGED <<orchVars, netVars, ruleVars>>
    \/ PassRemove /\ UNCHANGED <<orchVars, netVars, ruleVars>>
    \/ PassExtend /\ UNCHANGED <<orchVars, netVars, ruleVars>>
    \/ PassNet /\ UNCHANGED <<orchVars, netVars, ruleVars>>
    \/ PassCleanup /\ UNCHANGED <<orchVars, netVars, ruleVars>>

SpecPass == InitPass /\ [][NextPass]_vars

(***************************************************************************)
(* Properties of the pass.                                                 *)
(***************************************************************************)
Ids(txns) == [i \in 1..Len(txns) |-> txns[i].PortfolioTransactionID]
IsSynthetic(t) == "LocalTranKeySuffix" \in DOMAIN t /\ t.LocalTranKeySuffix = "_A_B"
Signalled(i, sig) == ApplyRules(batch[i]).signal = sig
CopiesOf(i) ==
    {j \in 1..Len(transactions) :
        transactions[j].PortfolioTransactionID = i /\ ~IsSynthetic(transactions[j])}

\* C7: the index-based deletion removes exactly the transactions that signalled
\* removal, whatever their number and positions: right after it the list holds
\* the others, in order, and the returned list holds no removed transaction and
\* every other transaction that is not a deposit/withdrawal leg exactly once.
C7_RemovalDropsExactlySignalled ==
    /\ phase = "extend" =>
          Ids(transactions) =
             Ids(SelectSeq(batch, LAMBDA t : ApplyRules(t).signal # "remove"))
    /\ phase = "done" =>
          \A i \in 1..Len(batch) :
             /\ Signalled(i, "remove") => CopiesOf(i) = {}
             /\ (~Signalled(i, "remove") /\ ~IsDpWd(ApplyRules(batch[i]).txn)) =>
                   Cardinality(CopiesOf(i)) = 1

C7_Witness ==
    /\ phase = "extend"
    /\ indices_to_remove = <<1, 3>>
    /\ Ids(transactions) = <<2>>

\* C8: an unexpected exception raised while the rules are applied to one
\* transaction does not end the pass: the exception never leaves process().
C8_ErrorSparesBatch ==
    \A i \in 1..Len(batch) : (Signalled(i, "error") /\ i <= pidx) => phase # "raised"

\* C9: the interest transaction carved out of a short-term sale is held aside:
\* it is never in the list the rule loop iterates and no per-transaction rule is
\* applied to it; the returned list holds it exactly once, after one netting step
\* and one final cleanup.
C9_SyntheticHeldAside ==
    /\ phase = "loop" =>
          \A j \in 1..Len(transactions) : ~IsSynthetic(transactions[j])
    /\ \A j \in 1..Len(new_txns) : IsSynthetic(new_txns[j]) /\ new_txns[j].rules = 0
    /\ phase = "done" =>
          \A i \in 1..Len(batch) :
             Signalled(i, "add") =>
                LET made == {j \in 1..Len(transactions) :
                               /\ IsSynthetic(transactions[j])
                               /\ transactions[j].PortfolioTransactionID = i}
                IN  /\ Cardinality(made) = 1
                    /\ \A j \in made : /\ transactions[j].rules = 0
                                       /\ transactions[j].netted = 1
                                       /\ transactions[j].cleaned = 1
                                       /\ transactions[j].TransactionCode = "in"

C9_Witness ==
    /\ phase = "done"
    /\ Len(batch) = 3
    /\ Signalled(1, "add") /\ Signalled(2, "none") /\ Signalled(3, "add")
    /\ Cardinality({j \in 1..Len(transactions) : IsSynthetic(transactions[j])}) = 2

(***************************************************************************)
(* Part 4.  The rules of the summary engine and of the transaction         *)
(* repository, each applied on its own to one input.                       *)
(***************************************************************************)
\* Sales of a short-term security as massage_fi_maturities receives them: after
\* the appraisal of the previous business day supplied the two cost bases
\* (sql_repositories.py:128-133) and after add_fields.
MaturityInputs ==
    {add_fields(SetAttrs(Txn("sl", "st", "ca", "TBILL", "cash", "S9", TRUE, m),
                         [TradeAmountLocal |-> l,
                          TradeAmount      |-> IF l = 0 THEN fx ELSE fx * l,
                          LocalCostBasis   |-> c,
                          RptCostBasis     |-> r])) :
        m \in BOOLEAN, l \in 0..MaxAmount, fx \in 1..MaxAmount, c \in 0..MaxAmount,
        r \in 0..(MaxAmount * MaxAmount)}

\* ---- CoreDBTransactionActivityRepository.get (sql_repositories.py:841-930);
\* APXDBTransactionActivityRepository.get (257-341) merges in the same way.
\* Amounts are in cents.

\* abs(a - b) < 0.015
Close(a, b) == 2 * Abs(a - b) < 3

\* One row of the source.  Rows have distinct PortfolioTransactionIDs.
Row(code, trade, settle, amt, sec1, type1, id) ==
    [TransactionCode |-> code, TradeDate |-> trade, SettleDate |-> settle,
     TradeAmountLocal |-> amt, TradeAmount |-> 3 * amt,
     SecurityID1 |-> sec1, SecurityID2 |-> "divacc",
     SecTypeCode1 |-> type1, SecTypeCode2 |-> "ca",
     PortfolioTransactionID |-> id]

RowAmounts == {1} \cup {2 * a : a \in 1..MaxAmount}

\* Dividends settling in the requested range; cash legs on the dividend account
\* traded in or before the range, and one on another security; sales of cash
\* against cash, and one of a bond; a purchase.
RowKinds ==
    {[code |-> "dv", trade |-> 1, settle |-> 2, amt |-> a, sec1 |-> "ABC",
      type1 |-> "cs"] : a \in RowAmounts}
    \cup {[code |-> c, trade |-> d, settle |-> 2, amt |-> a, sec1 |-> "divacc",
           type1 |-> "ca"] : c \in {"wd"}, d \in 1..2, a \in RowAmounts}
    \cup {[code |-> "dp", trade |-> 2, settle |-> 2, amt |-> 1, sec1 |-> "other",
           type1 |-> "ca"]}
    \cup {[code |-> "sl", trade |-> 2, settle |-> 2, amt |-> a, sec1 |-> "usd",
           type1 |-> "ca"] : a \in RowAmounts}
    \cup {[code |-> "sl", trade |-> 2, settle |-> 2, amt |-> 1, sec1 |-> "BOND",
           type1 |-> "cb"]}
    \cup {[code |-> "by", trade |-> 2, settle |-> 2, amt |-> 1, sec1 |-> "ABC",
           type1 |-> "cs"]}

\* The source returns its rows in any order of their ids: here ascending or
\* descending.
GetInputs ==
    {[rows |-> [i \in 1..n |->
                  Row(k[i].code, k[i].trade, k[i].settle, k[i].amt, k[i].sec1,
                      k[i].type1, IF asc THEN i ELSE n + 1 - i)],
      from_date |-> 2, to_date |-> 2] :
        n \in {MaxLegs + 1}, k \in [1..(MaxLegs + 1) -> RowKinds], asc \in BOOLEAN}

\* sql_repositories.py:868-871.
wd_candidates(txns, dv) ==
    SelectSeq(txns, LAMBDA t : /\ t.TransactionCode \in {"wd", "dp"}
                               /\ t.SettleDate = dv.SettleDate
                               /\ t.SecurityID1 = dv.SecurityID2
                               /\ Close(t.TradeAmountLocal, dv.TradeAmountLocal))

\* sql_repositories.py:881-885.
sl_candidates(txns, dv) ==
    SelectSeq(txns, LAMBDA t : /\ t.TransactionCode = "sl"
                               /\ t.SettleDate = dv.SettleDate
                               /\ t.SecTypeCode1 = "ca"
                               /\ t.SecTypeCode2 = "ca"
                               /\ Close(t.TradeAmountLocal, dv.TradeAmountLocal))

FirstCandidate_last(cands) == cands[Len(cands)]

\* wd_candidates[0], sl_candidates[0]
FirstCandidate(cands) == cands[1]

RemoveMerged_allSales(txns, sl) ==
    SelectSeq(txns, LAMBDA t : t.TransactionCode # "sl")

\* sql_repositories.py:891: transactions = [t for t in transactions if t != sl]
RemoveMerged(txns, sl) == SelectSeq(txns, LAMBDA t : t # sl)

\* sql_repositories.py:895-899: the FX attributes the sale has are copied to the
\* dividend.
FxAttrs == {"SecurityID2", "TradeAmount", "TradeDateFX", "SettleDateFX", "SpotRate",
            "FXDenominatorCurrencyCode", "FXNumeratorCurrencyCode", "SecTypeCode2",
            "FxRate"}
CopyFx(dv, sl) ==
    [x \in DOMAIN dv \cup (FxAttrs \cap DOMAIN sl) |->
        IF x \in FxAttrs \cap DOMAIN sl THEN sl[x] ELSE dv[x]]

\* sql_repositories.py:904-914: the realized-gains source holds a row, with a gain
\* of 1, for every sale.
CombineGains(dv, sl) == SetAttr(dv, "RealizedGainLoss", Num(dv, "RealizedGainLoss") + 1)

\* sql_repositories.py:864-914, one iteration of the loop over the dividends.
\* st.merges records, per dividend, the ids of the legs merged into it (history).
MergeDividend(st, dv0) ==
    LET dv1 == [dv0 EXCEPT !.TradeDate = dv0.SettleDate]
        wdc == wd_candidates(st.transactions, dv1)
        dv2 == IF wdc # <<>> THEN add_lineage(dv1, "Merged dp/wd") ELSE dv1
        wds == IF wdc # <<>> THEN <<FirstCandidate(wdc).PortfolioTransactionID>>
               ELSE <<>>
        slc == sl_candidates(st.transactions, dv2)
    IN  IF slc = <<>>
        THEN [transactions |-> st.transactions,
              dividends    |-> Append(st.dividends, dv2),
              merges       |-> Append(st.merges,
                                 [dv |-> dv0.PortfolioTransactionID, wd |-> wds,
                                  sl |-> <<>>])]
        ELSE LET sl == FirstCandidate(slc)
             IN  [transactions |-> RemoveMerged(st.transactions, sl),
                  dividends    |-> Append(st.dividends,
                                     CombineGains(CopyFx(add_lineage(dv2, "Merged sl"),
                                                         sl), sl)),
                  merges       |-> Append(st.merges,
                                     [dv |-> dv0.PortfolioTransactionID, wd |-> wds,
                                      sl |-> <<sl.PortfolioTransactionID>>])]

RECURSIVE MergeAll(_, _)
MergeAll(st, dvs) ==
    IF dvs = <<>> THEN st ELSE MergeAll(MergeDividend(st, Head(dvs)), Tail(dvs))

\* sorted(res_transactions, key=lambda x: x.PortfolioTransactionID): the sort is
\* stable, rows with the same id stay in the order they came in.
RECURSIVE SortById(_)
SortById(txns) ==
    IF txns = <<>> THEN <<>>
    ELSE LET m == CHOOSE i \in 1..Len(txns) :
                     \A j \in 1..Len(txns) :
                        /\ txns[i].PortfolioTransactionID <= txns[j].PortfolioTransactionID
                        /\ j < i => txns[j].PortfolioTransactionID
                                        # txns[i].PortfolioTransactionID
         IN  <<txns[m]>> \o SortById(SubSeq(txns, 1, m - 1) \o SubSeq(txns, m + 1, Len(txns)))

\* sql_repositories.py:841-930.
ActivityGet(in) ==
    LET dividends == SelectSeq(in.rows, LAMBDA t :
                        /\ in.from_date <= t.SettleDate /\ t.SettleDate <= in.to_date
                        /\ t.TransactionCode = "dv")
        st == MergeAll([transactions |-> in.rows, dividends |-> <<>>, merges |-> <<>>],
                       dividends)
        kept == SelectSeq(st.transactions, LAMBDA t :
                        /\ in.from_date <= t.TradeDate /\ t.TradeDate <= in.to_date
                        /\ t.TransactionCode # "dv")
    IN  [result |-> SortById(kept \o st.dividends), merges |-> st.merges]

\* ---- massage_deposits_withdrawals on its own: deposits and withdrawals with
\* the symbols the rule names, fragments of them, the empty string and others.
WashInputs ==
    {Txn(c, "ca", s2t, s1, s2, id2, FALSE, FALSE) :
        c \in {"dp", "wd"}, s2t \in {"ca", "aw"},
        s1 \in {"cash", "cust", "CUST", "us", "manfee", "dvwash", "income", "ABC"},
        s2 \in {"client", "CLIENT", "lie", "", "whnrtax", "cash", "ABC"},
        id2 \in {None, "S9"}}

\* ---- assign_fx_rate (engines.py:129-139).  The values of its numeric attributes:
\* a number n/d (a float), NaN, None, or a string.
NumV(n) == [kind |-> "num", n |-> n, d |-> 1]
NoneV   == [kind |-> "none", n |-> 0, d |-> 1]
NaNV    == [kind |-> "nan", n |-> 0, d |-> 1]
StrV    == [kind |-> "str", n |-> 0, d |-> 1]

\* bool(x)
Truthy_always(x) == TRUE
Truthy(x) == (x.kind = "num" /\ x.n # 0) \/ x.kind \in {"nan", "str"}

\* isinstance(x, numbers.Number) and not math.isnan(x)
IsRealNumber(x) == x.kind = "num"

RECURSIVE GCD(_, _)
GCD(a, b) == IF b = 0 THEN a ELSE GCD(b, a % b)

\* a / b on two numbers of the model (whole numbers): ZeroDivisionError for a zero
\* divisor, TypeError for None; otherwise the quotient in lowest terms.
Divide(a, b) ==
    IF a.kind # "num" \/ b.kind # "num" \/ b.n = 0 THEN [kind |-> "error", n |-> 0, d |-> 1]
    ELSE LET g == GCD(a.n, b.n)
         IN  [kind |-> "num", n |-> a.n \div g, d |-> b.n \div g]

assign_fx_rate(t) ==
    IF Truthy(t.TradeDateFX) /\ IsRealNumber(t.TradeDateFX)
    THEN Outcome(add_lineage(SetAttr(t, "FxRate", t.TradeDateFX),
                             "Assigned FxRate, based on TradeDateFX"), "none")
    ELSE IF t.PrincipalCurrencyISOCode1 = t.ReportingCurrencyISOCode
    THEN Outcome(add_lineage(SetAttr(t, "FxRate", NumV(1)), "Assigned FxRate as 1.0"),
                 "none")
    ELSE IF Truthy(t.TradeAmount) /\ Truthy(t.TradeAmountLocal)
    THEN LET q == Divide(t.TradeAmount, t.TradeAmountLocal)
         IN  IF q.kind = "error" THEN Outcome(t, "error")
             ELSE Outcome(add_lineage(SetAttr(t, "FxRate", q),
                                      "Assigned FxRate, based on TradeAmount / TradeAmountLocal"),
                          "none")
    ELSE Outcome(t, "none")

AmountValues == {NoneV} \cup {NumV(n) : n \in 0..MaxAmount}

FxInputs ==
    {[TradeDateFX |-> fx, PrincipalCurrencyISOCode1 |-> c, ReportingCurrencyISOCode |-> "CAD",
      TradeAmount |-> a, TradeAmountLocal |-> l] :
        fx \in {NoneV, NaNV, StrV, NumV(0), NumV(2)}, c \in {"CAD", "USD"},
        a \in AmountValues, l \in AmountValues}

\* ---- attribute_distribution (engines.py:208-239).
attribute_distribution(t) ==
    IF t.TransactionCode \in {"in", "sa", "pa"}
    THEN add_lineage(SetAttrs(t, [NetInterest |-> t.TradeAmount,
                                  TotalIncome |-> t.TradeAmount,
                                  Quantity |-> 0, UnitPrice |-> 0, UnitPriceLocal |-> 0]),
                     "assigned NetInterest and TotalIncome as TradeAmount")
    ELSE IF InStr(t.TransactionCode, "dv")
    THEN LET a == add_lineage(SetAttrs(t, [TotalIncome |-> t.TradeAmount,
                                           Quantity |-> 0, UnitPrice |-> 0,
                                           UnitPriceLocal |-> 0]),
                              "assigned TotalIncome as TradeAmount")
         IN  IF t.PrincipalCurrencyISOCode1 = "CAD"
             THEN add_lineage(SetAttrs(a, [NetDividend |-> t.TradeAmount,
                                           NetEligDividend |-> t.TradeAmount]),
                              "assigned NetDividend and NetEligDividend as TradeAmount")
             ELSE add_lineage(SetAttr(a, "NetFgnIncome", t.TradeAmount),
                              "assigned NetFgnIncome as TradeAmount")
    ELSE t

\* Income and other transactions of securities in CAD or USD, held in portfolios
\* reporting in CAD or USD.
DistributionInputs ==
    {[TransactionCode |-> c, TradeAmount |-> a, Quantity |-> 5,
      PrincipalCurrencyISOCode1 |-> p, ReportingCurrencyISOCode |-> r] :
        c \in {"dv", "in", "by", "d"}, a \in 1..MaxAmount,
        p \in {"CAD", "USD"}, r \in {"CAD", "USD"}}

\* ---- the coupon delay: APXDBvSecurityInMemoryRepository.supplement
\* (in_memory_repositories.py:198-214) and the rule in process (engines.py:830-834).
\* Dates are day numbers.

\* The value APX stores for "use the security type's delay".
UseSecTypeValue == 253

UseSecType_never(days) == FALSE

\* in_memory_repositories.py:213
UseSecType(days) == days = UseSecTypeValue

\* The security-1 half of supplement: the view's CouponDelayDays becomes
\* CouponDelayDays1, and the flag is set for the special value.
vSecuritySupplement(t, days) ==
    LET a == SetAttr(t, "CouponDelayDays1", days)
    IN  IF UseSecType(days) THEN SetAttr(a, "UseSecTypeForCouponDelayDays1", TRUE) ELSE a

\* engines.py:830-834
coupon_delay(t) ==
    IF /\ t.SecTypeBaseCode1 \in {"cm", "vm"}
       /\ t.TransactionCode \in {"pd", "in"}
       /\ t.TradeDate = t.SettleDate
       /\ t.CouponDelayDays1 > 0
       /\ ~(IF "UseSecTypeForCouponDelayDays1" \in DOMAIN t
            THEN t.UseSecTypeForCouponDelayDays1 ELSE FALSE)
    THEN [t EXCEPT !.SettleDate = t.TradeDate + t.CouponDelayDays1]
    ELSE t

CouponInputs ==
    {[txn |-> [SecTypeBaseCode1 |-> s, TransactionCode |-> c, TradeDate |-> 1,
               SettleDate |-> sd],
      days |-> n] :
        s \in {"cm", "vm", "cb"}, c \in {"pd", "in", "by"}, sd \in 1..2,
        n \in (0..MaxAmount) \cup {UseSecTypeValue}}

\* ---- the final cleanups of the summary engine (engines.py:905-931), applied to
\* one transaction.  Numeric attributes are values as in assign_fx_rate: a number
\* or None.
Neg(x) == [x EXCEPT !.n = 0 - x.n]

\* hasattr(txn, a) and delattr(txn, a) with its lineage note
RemoveAttr(t, a) ==
    IF a \in DOMAIN t THEN add_lineage(DelAttrs(t, {a}), "removed " \o a) ELSE t

\* engines.py:509-523
remove_price_and_quantity(t) ==
    RemoveAttr(RemoveAttr(RemoveAttr(t, "PricePerUnit"), "PricePerUnitLocal"), "Quantity")

\* engines.py:526-534
zero_registered_contributions(t) ==
    LET a == IF InStr("TFSA", t.PortfolioTypeCode)
             THEN add_lineage(SetAttr(t, "TfsaContribAmt", NumV(0)), "zeroed TfsaContribAmt")
             ELSE t
    IN  IF InStr("RRSP", a.PortfolioTypeCode)
        THEN add_lineage(SetAttr(a, "RspContribAmt", NumV(0)), "zeroed RspContribAmt")
        ELSE a

\* engines.py:536-541, for one column
AssignSecColumn(t, col) ==
    IF (col \o "1") \in DOMAIN t
    THEN add_lineage(SetAttr(t, col, t[col \o "1"]), "Assigned " \o col)
    ELSE t

assign_sec_columns(t) ==
    AssignSecColumn(AssignSecColumn(AssignSecColumn(t, "FullName"), "Name4Stmt"),
                    "Name4Trading")

BalancedFunds == {"AVBF", "DPA", "DPB", "IAFA", "IAFB", "IPFA", "UDPA", "UDPB", "BFA",
                  "BFB", "BFF", "IAFF"}
FixedIncomeFunds == {"CFIA", "TRFA", "TRFB", "CPFIA", "CPFIB", "FIA", "FIB", "LTFA",
                     "MMF", "TRLA", "CPPA", "CPPB", "HYA", "HYAH", "HYB", "HYBH",
                     "CPBFA", "CPFIF", "HYF", "HYFH", "MMA", "USSMA", "USSMB", "USSMF",
                     "IBHA", "IBHB", "MCA", "MCB", "MCF", "STIFA", "STIFB", "STIFF",
                     "STIFI1", "UMMA", "UMMB", "UMMF", "TRFI1"}

\* engines.py:564-601: the name of a transaction that is not a dividend.
\*  x in ('rc')  is a test on substrings,  x in ('by', 'bc')  one on members.
NameOfCode(code) ==
    CASE code \in {"by", "bc"} -> "Purchase"
      [] code \in {"sl", "ss"} -> "Sale"
      [] InStr(code, "rc")     -> "Return Of Capital"
      [] InStr(code, "pd")     -> "Paydown"
      [] InStr(code, "mt")     -> "Maturity"
      [] code \in {"wd", "lo"} -> "Withdrawal"
      [] code \in {"dp", "li"} -> "Contribution"
      [] code \in {"in", "sa"} -> "Interest Received"
      [] InStr(code, "pa")     -> "Interest Paid"
      [] code \in {"ex", "ep"} -> "Expense"
      [] InStr(code, "wt")     -> "Withholding Tax"
      [] InStr(code, "ac")     -> "Cost Adjustment"
      [] OTHER                 -> "Unknown"

\* engines.py:543-604
assign_transaction_name(t) ==
    IF t.TransactionCode = "dv"
    THEN LET name == IF t.SecTypeBaseCode1 # "lw" THEN "Dividend"
                     ELSE IF t.Symbol1 \in BalancedFunds THEN "Distribution"
                     ELSE IF t.Symbol1 \in FixedIncomeFunds THEN "Interest Received"
                     ELSE "Dividend"
         IN  add_lineage(SetAttr(t, "TransactionName", name), "assigned TransactionName")
    ELSE add_lineage(SetAttr(t, "TransactionName", NameOfCode(t.TransactionCode)),
                     "assigned TransactionName")

\* engines.py:606-666: the description of a code, None where the function returns
\* without assigning one.
SectionOfCode(code) ==
    CASE InStr(code, "by")   -> "Buy"
      [] InStr(code, "sl")   -> "Sell"
      [] InStr(code, "pd")   -> "Repayment"
      [] InStr(code, "mt")   -> "Maturity"
      [] code \in {"dp", "li"} -> "Deposit"
      [] code \in {"wd", "lo"} -> "Withdrawal"
      [] code \in {"ex", "ep"} -> "Fee"
      [] InStr(code, "dv")   -> "Dividend"
      [] InStr(code, "dr")   -> "Dividend Reclaim"
      [] InStr(code, "in")   -> "Interest"
      [] InStr(code, "pa")   -> "Accrued Interest Bought"
      [] InStr(code, "sa")   -> "Accrued Interest Sold"
      [] InStr(code, "rc")   -> "Return of Capital"
      [] InStr(code, "ti")   -> "Transfer In"
      [] InStr(code, "to")   -> "Transfer Out"
      [] InStr(code, "ss")   -> "Sell Short"
      [] InStr(code, "cs")   -> "Cover Short"
      [] InStr(code, "si")   -> "Deposit Security (Short)"
      [] InStr(code, "ac")   -> "Adjust Cost"
      [] OTHER               -> None

\* engines.py:606-668; SectionDesc is the StmtTranDesc, in the plural for buys,
\* sells, deposits, withdrawals and fees.
assign_section_and_stmt_tran(t) ==
    LET desc == SectionOfCode(t.TransactionCode)
    IN  IF desc = None THEN t
        ELSE add_lineage(SetAttrs(t, [SectionDesc |-> desc, StmtTranDesc |-> desc]),
                         "assigned SectionDesc and StmtTranDesc")

\* The quantity and the prices only.
dv_null_fields_pricesOnly == {"Quantity", "PricePerUnit", "PricePerUnitLocal"}

\* engines.py:673-679
dv_null_fields == {"Quantity", "PricePerUnit", "PricePerUnitLocal", "CostPerUnit",
                   "CostPerUnitLocal", "CostBasis", "CostBasisLocal"}

\* engines.py:670-680
null_fields_for_dv(t) ==
    IF InStr(t.TransactionCode, "dv")
    THEN add_lineage([a \in DOMAIN t \cup dv_null_fields |->
                         IF a \in dv_null_fields THEN NoneV ELSE t[a]],
                     "dv -> nulled out")
    ELSE t

\* engines.py:682-687
reverse_amount_signs(t) ==
    IF t.TransactionCode \in {"lo", "wd", "ex", "ep", "wt"}
    THEN add_lineage(SetAttrs(t, [TradeAmount |-> Neg(t.TradeAmount),
                                  TradeAmountLocal |-> Neg(t.TradeAmountLocal)]),
                     "reversed signs for TradeAmount and TradeAmountLocal")
    ELSE t

\* engines.py:689-697
assign_name4stmt_for_client_wd_dp(t) ==
    IF t.Symbol1 = "client" /\ t.TransactionCode = "wd"
    THEN add_lineage(SetAttr(t, "Name4Stmt", "CASH WITHDRAWAL"), "assigned Name4Stmt")
    ELSE IF t.Symbol1 = "client" /\ t.TransactionCode = "dp"
    THEN add_lineage(SetAttr(t, "Name4Stmt", "CASH DEPOSIT"), "assigned Name4Stmt")
    ELSE t

\* engines.py:701-704, for one attribute: not getattr(txn, attr, None)
UnassignIfZero(t, a) ==
    IF a \in DOMAIN t /\ Truthy(t[a]) THEN t
    ELSE add_lineage(SetAttr(t, a, NoneV), "nulled out " \o a)

\* engines.py:699-704
unassign_gains_proceeds_quantity_if_zero(t) ==
    UnassignIfZero(UnassignIfZero(UnassignIfZero(t, "RealizedGain"), "Proceeds"),
                   "Quantity")

\* engines.py:708-715
assign_cash_flow(t) ==
    IF InStr(t.TransactionCode, "by")
    THEN add_lineage(SetAttr(t, "CashFlow", Neg(t.TradeAmount)),
                     "set CashFlow as -1 * TradeAmount")
    ELSE add_lineage(SetAttr(t, "CashFlow", t.TradeAmount), "set CashFlow as TradeAmount")

\* engines.py:717-721
assign_standard_attributes(t, queue_item) ==
    SetAttrs(t, [portfolio_code |-> queue_item.portfolio_code,
                 trade_date_original |-> queue_item.trade_date,
                 modified_by |-> "LW-Transaction-Summary-Engine"])

\* engines.py:907-931, the body of the loop, up to null_fields_for_dv ...
CleanupHead(t) ==
    LET a == IF t.TransactionCode \in {"dp", "wd", "ex", "ep", "wt", "pa", "sa", "in",
                                       "pd", "rc"}
             THEN remove_price_and_quantity(t) ELSE t
        b == IF a.TransactionCode = "wd" THEN zero_registered_contributions(a) ELSE a
    IN  assign_section_and_stmt_tran(assign_transaction_name(assign_sec_columns(b)))

\* ... and from it on.
CleanupTail(t, queue_item) ==
    assign_standard_attributes(
        assign_cash_flow(
            unassign_gains_proceeds_quantity_if_zero(
                assign_name4stmt_for_client_wd_dp(reverse_amount_signs(t)))),
        queue_item)

cleanup(t, queue_item) == CleanupTail(null_fields_for_dv(CleanupHead(t)), queue_item)

\* Transactions as the cleanup loop finds them: survivors of the rules, synthetic
\* interest rows and aggregates, each with the lineage it has collected so far.
\* Quantity and the price and cost attributes are absent, None, zero or a number.
Optional(t, a, v) == IF v = <<>> THEN t ELSE SetAttr(t, a, v[1])

CleanupInputs ==
    {Optional(Optional(Optional(
        [TransactionCode |-> c, SecTypeBaseCode1 |-> s, Symbol1 |-> sym,
         PortfolioTypeCode |-> p, FullName1 |-> "Full name",
         TradeAmount |-> NumV(MaxAmount), TradeAmountLocal |-> NumV(1),
         CostPerUnit |-> NumV(1), RealizedGain |-> NumV(0),
         lw_lineage |-> <<"Assigned fields">>],
        "Quantity", q), "PricePerUnit", ppu), "CostBasis", cb) :
        c \in {"dv", "wd", "dp", "by", "in", "lo", "zz"}, s \in {"lw", "cs"},
        sym \in {"client", "MMF", "ABC"}, p \in {"TFSA", "RRSP", "Taxable"},
        q \in {<<>>} \cup {<<x>> : x \in {NoneV, NumV(0), NumV(MaxAmount)}},
        ppu \in {<<>>, <<NumV(1)>>},
        cb \in {<<>>, <<NumV(MaxAmount)>>}}

\* ---- one pass of the summary engine as a function of the rows the source
\* holds, in the order the source returns them.
\* engines.py:760-888: the loop over the transactions, from index i on.
RECURSIVE RulesLoop(_, _)
\* One turn of the loop over the transactions (engines.py:760-800), st being the
\* lists as the turns before left them.
RulesStep(st, i) ==
    IF i > Len(st.transactions) \/ st.signal = "error" THEN st
    ELSE LET r == ApplyRules(st.transactions[i])
             kept == [st.transactions EXCEPT ![i] = r.txn]
         IN  RulesLoop(
                 CASE r.signal = "error"  -> [st EXCEPT !.signal = "error"]
                   [] r.signal = "add"    ->
                        [st EXCEPT !.transactions = HeldAside(kept, st.new_txns, r.new[1]).transactions,
                                   !.new_txns = HeldAside(kept, st.new_txns, r.new[1]).new_txns]
                   [] r.signal = "remove" ->
                        [st EXCEPT !.transactions = kept,
                                   !.indices_to_remove = Append(@, i)]
                   [] OTHER               -> [st EXCEPT !.transactions = kept],
                 i + 1)

\* The lists are worked out once per turn and handed on as values.
RulesLoop(st, i) == CHOOSE out \in {RulesStep(s, i) : s \in {st}} : TRUE

\* What process returns, and the list after every stage of it.
ProcessOutcome(sorted, looped, merged, netted) ==
    IF looped.signal = "error"
    THEN [signal |-> "error", sorted |-> sorted, merged |-> <<>>, netted |-> <<>>,
          result |-> <<>>]
    ELSE [signal |-> "none", sorted |-> sorted, merged |-> merged,
          netted |-> netted, result |-> Counted(netted, "cleaned")]

\* LWTransactionSummaryEngine.process (engines.py:724-933) on the transactions
\* source_txn_repo.get returns: sorted by PortfolioTransactionID
\* (sql_repositories.py:921-930), the loop over the transactions, the removals and
\* additions, net_deposits_withdrawals and the cleanup, each stage worked out once
\* from the one before.
process(rows) ==
    LET Netted(sorted, looped, merged) ==
            {ProcessOutcome(sorted, looped, merged, netted) :
                netted \in {IF looped.signal = "error" THEN <<>>
                            ELSE net_deposits_withdrawals(Counted(merged, "netted"))}}
        Merged(sorted, looped) ==
            UNION {Netted(sorted, looped, merged) :
                      merged \in {RemoveAll(looped.transactions, looped.indices_to_remove)
                                     \o looped.new_txns}}
        Looped(sorted) ==
            UNION {Merged(sorted, looped) :
                      looped \in {RulesLoop([transactions |-> sorted,
                                             indices_to_remove |-> <<>>,
                                             new_txns |-> <<>>, signal |-> "none"], 1)}}
    IN  CHOOSE out \in UNION {Looped(sorted) : sorted \in {SortById(rows)}} : TRUE

\* Rows of the source: client deposits and withdrawals, sales of a short-term
\* security before maturity and purchases.  A row is identified by
\* (PortfolioTransactionID, TranID, LotNumber); one transaction may come as
\* several rows, one per lot.
ProcessShapes ==
    { Txn("dp", "ca", "ca", "cash", "client", "S9", FALSE, FALSE),
      Txn("wd", "ca", "ca", "cash", "client", "S9", FALSE, FALSE),
      Txn("sl", "st", "ca", "TBILL", "cash", "S9", TRUE, FALSE),
      Txn("by", "cs", "ca", "ABC", "cash", "S9", FALSE, FALSE) }

ProcessRow(shape, id, lot, amt) ==
    [shape EXCEPT !.PortfolioTransactionID = id, !.TranID = id, !.LotNumber = lot,
                  !.TradeAmount = amt, !.TradeAmountLocal = amt]

RowIdOf(t) == <<t.PortfolioTransactionID, t.TranID, t.LotNumber>>

\* Withdrawals of one or of MaxAmount, everything else of one.
ProcessRows ==
    UNION {{ProcessRow(s, id, lot, amt) :
               amt \in IF s.TransactionCode = "wd" THEN {1, MaxAmount} ELSE {1}} :
           s \in ProcessShapes, id \in 1..MaxLegs, lot \in 1..2}

ProcessInputs ==
    {rows \in UNION {[1..n -> ProcessRows] : n \in 2..3} :
        \A i, j \in 1..Len(rows) : i # j => RowIdOf(rows[i]) # RowIdOf(rows[j])}

\* The same rows in every order the source may return them.
Orders(rows) ==
    {[i \in 1..Len(rows) |-> rows[p[i]]] : p \in Permutations(1..Len(rows))}

\* ---- the lookup caches (in_memory_repositories.py) and supplement.

\* InMemoryRepository.get (in_memory_repositories.py:35-40): dict.get of the
\* composite key, the row as <<row>> or None as <<>>.
InMemoryGet(current_data, key) ==
    IF key \in DOMAIN current_data THEN <<current_data[key]>> ELSE <<>>

\* The rows of vSecurity, vCurrency and vPortfolio that the caches hold.
SecurityData ==
    [S1 |-> [Symbol |-> "ABC", CouponDelayDays |-> 0],
     S2 |-> [Symbol |-> "MBS", CouponDelayDays |-> UseSecTypeValue]]
CurrencyData == [ca |-> [ISOCode |-> "CAD"], us |-> [ISOCode |-> "USD"]]
PortfolioData == [P1 |-> [PortfolioCode |-> "P1", PortfolioTypeCode |-> "TFSA"]]

\* setattr(transaction, f'{key}{suffix}', value) for every column of the row
SetSuffixed(t, row, suffix) ==
    [a \in DOMAIN t \cup {k \o suffix : k \in DOMAIN row} |->
        IF \E k \in DOMAIN row : k \o suffix = a
        THEN row[CHOOSE k \in DOMAIN row : k \o suffix = a]
        ELSE t[a]]

\* SupplementaryRepository.supplement (domain/repositories.py:56-81): the row is
\* copied onto the transaction if there is one.
DefaultSupplement(t, current_data, pk) ==
    LET found == InMemoryGet(current_data, t[pk])
    IN  Outcome(IF found # <<>> THEN SetAttrs(t, found[1]) ELSE t, "none")

\* APXDBvSecurityInMemoryRepository.supplement (in_memory_repositories.py:198-214)
\* for one suffix: None.items() raises AttributeError.
SecuritySupplementOne(t, suffix) ==
    LET found == InMemoryGet(SecurityData, t["SecurityID" \o suffix])
        a == SetSuffixed(t, found[1], suffix)
    IN  IF found = <<>> THEN Outcome(t, "error")
        ELSE Outcome(IF UseSecType(found[1].CouponDelayDays)
                     THEN SetAttr(a, "UseSecTypeForCouponDelayDays" \o suffix, TRUE)
                     ELSE a, "none")

SecuritySupplement(t) ==
    LET one == SecuritySupplementOne(t, "1")
    IN  IF one.signal = "error" THEN one ELSE SecuritySupplementOne(one.txn, "2")

\* APXDBvCurrencyInMemoryRepository.supplement (in_memory_repositories.py:165-189)
\* for one of the two codes: None['ISOCode'] raises TypeError.
CurrencySupplementOne(t, code, iso) ==
    LET found == InMemoryGet(CurrencyData, t[code])
    IN  IF code \notin DOMAIN t THEN Outcome(t, "none")
        ELSE IF found = <<>> THEN Outcome(t, "error")
        ELSE Outcome(SetAttr(t, iso, found[1].ISOCode), "none")

CurrencySupplement(t) ==
    LET a == IF "FXNumeratorCurrencyCode" \in DOMAIN t
             THEN DefaultSupplement(t, CurrencyData, "FXNumeratorCurrencyCode").txn
             ELSE t
        b == CurrencySupplementOne(a, "ReportingCurrencyCode", "ReportingCurrencyISOCode")
    IN  IF b.signal = "error" THEN b
        ELSE CurrencySupplementOne(b.txn, "PrincipalCurrencyCode1",
                                   "PrincipalCurrencyISOCode1")

\* sr.supplement(txn) for a repository of preprocessing_supplementary_repos
\* (engines.py:118-127, consumer.py:75-86).
supplement(in) ==
    CASE in.repo = "vPortfolio" -> DefaultSupplement(in.txn, PortfolioData, "PortfolioCode")
      [] in.repo = "vSecurity"  -> SecuritySupplement(in.txn)
      [] in.repo = "vCurrency"  -> CurrencySupplement(in.txn)

\* Transactions whose keys the caches hold, or a second security that is empty,
\* or a portfolio or a currency code the caches do not hold.
SupplementInputs ==
    {[repo |-> r,
      txn |-> Optional([PortfolioCode |-> p, SecurityID1 |-> "S1", SecurityID2 |-> s2,
                        ReportingCurrencyCode |-> "ca", PrincipalCurrencyCode1 |-> c],
                       "FXNumeratorCurrencyCode", fx)] :
        r \in {"vPortfolio", "vSecurity", "vCurrency"}, p \in {"P1", "P404"},
        s2 \in {"S1", "S2", None}, c \in {"ca", "us", "xx"},
        fx \in {<<>>, <<"us">>, <<"xx">>}}

\* ---- refresh of a lookup cache (in_memory_repositories.py:75-102, 224-231).
\* A table maps the keys it holds to their rows; params is <<>> for no criteria or
\* <<key>> for the criteria of one key.
CacheKeys == {"k1", "k2"}
Tables == UNION {[K -> 1..MaxAmount] : K \in SUBSET CacheKeys}

\* sql_source().read(**params)
SourceRead(source, params) ==
    IF params = <<>> THEN source
    ELSE [k \in DOMAIN source \cap {params[1]} |-> source[k]]

\* self.current_data.update(new_data)
DictUpdate(current_data, new_data) ==
    [k \in DOMAIN current_data \cup DOMAIN new_data |->
        IF k \in DOMAIN new_data THEN new_data[k] ELSE current_data[k]]

\* InMemorySingletonSQLRepository.refresh; APXDBvFXRateInMemoryRepository.refresh
\* does nothing without a PriceDate among the criteria.
refresh(in) ==
    IF in.repo = "vFXRate" /\ in.params = <<>> THEN in.current_data
    ELSE DictUpdate(in.current_data, SourceRead(in.source, in.params))

\* The cache holds what an earlier refresh read; the source has changed since.
RefreshInputs ==
    {[repo |-> r, current_data |-> c, source |-> s, params |-> p] :
        r \in {"vSecurity", "vFXRate"}, c \in Tables, s \in Tables,
        p \in {<<>>} \cup {<<k>> : k \in CacheKeys}}

\* ---- TransactionEventHandler.handle (event_handlers.py:23-52) and the commit
\* decision of the consumer (message_subscribers.py:446-474).
TransactionEvents ==
    {"TransactionCreatedEvent", "TransactionUpdatedEvent", "TransactionDeletedEvent"}

\* The vPortfolio cache as refresh leaves it (in_memory_repositories.py:86-90,
\* 134-137): keyed by PortfolioID, each row carries portfolio_code.
PortfolioCache ==
    [B1 |-> [PortfolioCode |-> "P1", PortfolioTypeCode |-> "TFSA", portfolio_code |-> "P1"]]

\* SupplementaryRepository.supplement for the handler's supplementary_repos
\* (domain/repositories.py:56-81): getattr of a missing key attribute raises
\* AttributeError, a key the cache does not hold leaves the transaction alone.
EventSupplement(t) ==
    IF "PortfolioBaseID" \in DOMAIN t
    THEN DefaultSupplement(t, PortfolioCache, "PortfolioBaseID")
    ELSE Outcome(t, "error")

\* create, with the outcome of the INSERT as an input: one row, no row, or an SQL
\* error that create does not catch.
create(q, item, insert) ==
    IF \E i \in 1..Len(q) :
          Matches(q[i], item.portfolio_code, item.trade_date, item.queue_status)
    THEN [rows |-> 1, q |-> q, signal |-> "none"]
    ELSE CASE insert = "inserted" -> [rows |-> 1, q |-> Append(q, item), signal |-> "none"]
           [] insert = "norows"   -> [rows |-> 0, q |-> q, signal |-> "none"]
           [] insert = "raises"   -> [rows |-> 0, q |-> q, signal |-> "error"]

\* for repo in self.target_queue_repos: if not repo.create(...): return False
RECURSIVE CreateTargets(_, _, _, _)
CreateTargets(qs, targets, item, insert) ==
    IF targets = <<>> THEN [returned |-> TRUE, queues |-> qs, logged |-> FALSE]
    ELSE LET c  == create(qs[Head(targets)], item, insert)
             q1 == [qs EXCEPT ![Head(targets)] = c.q]
         IN  IF c.signal = "error" THEN [returned |-> TRUE, queues |-> q1, logged |-> TRUE]
             ELSE IF c.rows = 0 THEN [returned |-> FALSE, queues |-> q1, logged |-> FALSE]
             ELSE CreateTargets(q1, Tail(targets), item, insert)

\* handle: an exception anywhere inside the try is logged and the method falls
\* through to its last line, return True.
handle(in) ==
    IF in.event \notin TransactionEvents
    THEN [returned |-> TRUE, queues |-> in.queues, logged |-> FALSE]
    ELSE LET s == EventSupplement(in.txn)
         IN  IF s.signal = "error"
             THEN [returned |-> TRUE, queues |-> in.queues, logged |-> TRUE]
             ELSE IF ~ {"portfolio_code", "trade_date"} \subseteq DOMAIN s.txn
             THEN [returned |-> TRUE, queues |-> in.queues, logged |-> TRUE]
             ELSE CreateTargets(in.queues, EventTargetQueues,
                                TransactionProcessingQueueItem(s.txn.portfolio_code,
                                                               s.txn.trade_date, "PENDING"),
                                in.insert)

\* consume: should_commit = self.event_handler.handle(event); commit if should_commit.
consume(in) ==
    LET h == handle(in)
    IN  [handled |-> h.returned, committed |-> h.returned, queues |-> h.queues,
         logged |-> h.logged]

\* Events of each class, for a portfolio the cache holds, one it does not hold or a
\* message without the key column, with or without a trade_date, against a queue
\* that is empty or holds the key at PENDING or at SUCCESS.
EventTxns ==
    {Optional(Optional([TransactionCode |-> "by"], "PortfolioBaseID", p), "trade_date", d) :
        p \in {<<>>, <<"B1">>, <<"B404">>}, d \in {<<>>, <<1>>}}

EventInputs ==
    {[event |-> e, txn |-> t, insert |-> i,
      queues |-> [s \in Stages |-> IF s \in Range(EventTargetQueues) THEN q ELSE <<>>]] :
        e \in TransactionEvents \cup {"TransactionCommentCreatedEvent"},
        t \in EventTxns,
        i \in {"inserted", "norows", "raises"},
        q \in {<<>>, <<TransactionProcessingQueueItem("P1", 1, "PENDING")>>,
               <<TransactionProcessingQueueItem("P1", 1, "SUCCESS")>>,
               <<TransactionProcessingQueueItem("P1", 1, "IN_PROGRESS")>>}}

InitRules ==
    /\ orchOff /\ passOff /\ netOff
    /\ ret = <<>>
    /\ \/ fn = "massage_fi_maturities" /\ arg \in MaturityInputs
       \/ fn = "get" /\ arg \in GetInputs
       \/ fn = "massage_deposits_withdrawals" /\ arg \in WashInputs
       \/ fn = "assign_fx_rate" /\ arg \in FxInputs
       \/ fn = "attribute_distribution" /\ arg \in DistributionInputs
       \/ fn = "coupon_delay" /\ arg \in CouponInputs
       \/ fn = "handle" /\ arg \in EventInputs
       \/ fn = "refresh" /\ arg \in RefreshInputs
       \/ fn = "supplement" /\ arg \in SupplementInputs
       \/ fn = "cleanup" /\ arg \in CleanupInputs
       \/ fn = "process" /\ arg \in ProcessInputs

ApplyMaturities ==
    /\ fn = "massage_fi_maturities" /\ ret = <<>>
    /\ ret' = <<massage_fi_maturities(arg)>>
    /\ UNCHANGED <<fn, arg>>

ApplyGet ==
    /\ fn = "get" /\ ret = <<>>
    /\ ret' = <<ActivityGet(arg)>>
    /\ UNCHANGED <<fn, arg>>

ApplyWash ==
    /\ fn = "massage_deposits_withdrawals" /\ ret = <<>>
    /\ ret' = <<massage_deposits_withdrawals(arg)>>
    /\ UNCHANGED <<fn, arg>>

ApplyFxRate ==
    /\ fn = "assign_fx_rate" /\ ret = <<>>
    /\ ret' = <<assign_fx_rate(arg)>>
    /\ UNCHANGED <<fn, arg>>

ApplyDistribution ==
    /\ fn = "attribute_distribution" /\ ret = <<>>
    /\ ret' = <<Outcome(attribute_distribution(arg), "none")>>
    /\ UNCHANGED <<fn, arg>>

ApplyCouponDelay ==
    /\ fn = "coupon_delay" /\ ret = <<>>
    /\ ret' = <<Outcome(coupon_delay(vSecuritySupplement(arg.txn, arg.days)), "none")>>
    /\ UNCHANGED <<fn, arg>>

ApplyCleanup ==
    /\ fn = "cleanup" /\ ret = <<>>
    /\ ret' = <<Outcome(cleanup(arg, TransactionProcessingQueueItem("P1", 1, "IN_PROGRESS")),
                        "none")>>
    /\ UNCHANGED <<fn, arg>>

ApplyProcess ==
    /\ fn = "process" /\ ret = <<>>
    /\ ret' = <<process(arg)>>
    /\ UNCHANGED <<fn, arg>>

ApplySupplement ==
    /\ fn = "supplement" /\ ret = <<>>
    /\ ret' = <<supplement(arg)>>
    /\ UNCHANGED <<fn, arg>>

ApplyRefresh ==
    /\ fn = "refresh" /\ ret = <<>>
    /\ ret' = <<refresh(arg)>>
    /\ UNCHANGED <<fn, arg>>

ApplyHandle ==
    /\ fn = "handle" /\ ret = <<>>
    /\ ret' = <<consume(arg)>>
    /\ UNCHANGED <<fn, arg>>

NextRules ==
    \/ ApplyHandle /\ UNCHANGED <<orchVars, passVars, netVars>>
    \/ ApplyRefresh /\ UNCHANGED <<orchVars, passVars, netVars>>
    \/ ApplySupplement /\ UNCHANGED <<orchVars, passVars, netVars>>
    \/ ApplyCleanup /\ UNCHANGED <<orchVars, passVars, netVars>>
    \/ ApplyProcess /\ UNCHANGED <<orchVars, passVars, netVars>>
    \/ ApplyCouponDelay /\ UNCHANGED <<orchVars, passVars, netVars>>
    \/ ApplyDistribution /\ UNCHANGED <<orchVars, passVars, netVars>>
    \/ ApplyFxRate /\ UNCHANGED <<orchVars, passVars, netVars>>
    \/ ApplyMaturities /\ UNCHANGED <<orchVars, passVars, netVars>>
    \/ ApplyWash /\ UNCHANGED <<orchVars, passVars, netVars>>
    \/ ApplyGet /\ UNCHANGED <<orchVars, passVars, netVars>>

SpecRules == InitRules /\ [][NextRules]_vars

Ran(f) == fn = f /\ ret # <<>>

\* C14: whenever massage_fi_maturities splits a short-term sale, before maturity
\* or at or after it, the TradeAmount left in the sale plus the TradeAmount of the
\* interest component equals the TradeAmount the sale came in with.
C14_MaturitySplitConserves ==
    (Ran("massage_fi_maturities") /\ ret[1].signal = "add") =>
        ret[1].txn.TradeAmount + ret[1].new[1].TradeAmount = arg.TradeAmount

\* Position in the source, and the row as the source returned it.
PosOf(id) == CHOOSE i \in 1..Len(arg.rows) : arg.rows[i].PortfolioTransactionID = id
SourceRow(id) == arg.rows[PosOf(id)]

\* The conditions under which a leg is a companion of a dividend.
CashFits(t, dv) ==
    /\ t.TransactionCode \in {"dp", "wd"}
    /\ t.SettleDate = dv.SettleDate
    /\ t.SecurityID1 = dv.SecurityID2
    /\ Close(t.TradeAmountLocal, dv.TradeAmountLocal)
FxFits(t, dv) ==
    /\ t.TransactionCode = "sl"
    /\ t.SettleDate = dv.SettleDate
    /\ t.SecTypeCode1 = "ca" /\ t.SecTypeCode2 = "ca"
    /\ Close(t.TradeAmountLocal, dv.TradeAmountLocal)

\* The sales merged into the dividends handled before the m-th.
TakenBefore(m) ==
    {ret[1].merges[n].sl[1] : n \in {x \in 1..(m - 1) : ret[1].merges[x].sl # <<>>}}

NoteCount(t, msg) ==
    IF "lw_lineage" \in DOMAIN t
    THEN Cardinality({n \in 1..Len(t.lw_lineage) : t.lw_lineage[n] = msg})
    ELSE 0

ResultRow(id) ==
    CHOOSE r \in Range(ret[1].result) : r.PortfolioTransactionID = id

\* C15: each dividend gets at most one cash leg and at most one FX sale merged
\* into it (its lineage holds at most one note of each kind), and the leg merged
\* is the first one, in the order of the source, that satisfies the settle-date,
\* security and amount conditions (for a sale: among those not already merged
\* into an earlier dividend).
C15_FirstCandidateOnly ==
    Ran("get") =>
       \A m \in 1..Len(ret[1].merges) :
          LET e  == ret[1].merges[m]
              dv == SourceRow(e.dv)
          IN  /\ Len(e.wd) <= 1 /\ Len(e.sl) <= 1
              /\ NoteCount(ResultRow(e.dv), "Merged dp/wd") = Len(e.wd)
              /\ NoteCount(ResultRow(e.dv), "Merged sl") = Len(e.sl)
              /\ e.wd # <<>> =>
                    /\ CashFits(SourceRow(e.wd[1]), dv)
                    /\ \A j \in 1..(PosOf(e.wd[1]) - 1) : ~CashFits(arg.rows[j], dv)
              /\ e.sl # <<>> =>
                    /\ FxFits(SourceRow(e.sl[1]), dv)
                    /\ \A j \in 1..(PosOf(e.sl[1]) - 1) :
                          FxFits(arg.rows[j], dv) =>
                             arg.rows[j].PortfolioTransactionID \in TakenBefore(m)

\* A dividend with two candidate sales, the first of which, the one with the
\* larger id, was merged.
C15_Witness ==
    /\ Ran("get")
    /\ \E m \in 1..Len(ret[1].merges) : \E i, j \in 1..Len(arg.rows) :
          /\ i < j
          /\ FxFits(arg.rows[i], SourceRow(ret[1].merges[m].dv))
          /\ FxFits(arg.rows[j], SourceRow(ret[1].merges[m].dv))
          /\ ret[1].merges[m].sl = <<arg.rows[i].PortfolioTransactionID>>
          /\ arg.rows[i].PortfolioTransactionID > arg.rows[j].PortfolioTransactionID

MergedSales == {ret[1].merges[m].sl[1] :
                   m \in {x \in 1..Len(ret[1].merges) : ret[1].merges[x].sl # <<>>}}
MergedCash  == {ret[1].merges[m].wd[1] :
                   m \in {x \in 1..Len(ret[1].merges) : ret[1].merges[x].wd # <<>>}}
ResultIds   == {ret[1].result[k].PortfolioTransactionID : k \in 1..Len(ret[1].result)}
InRange(t)  == arg.from_date <= t.TradeDate /\ t.TradeDate <= arg.to_date

KnownWashPattern(t) ==
    \/ Lower(t.Symbol2) \in {"client", "whnrtax", "whfedtax"}
    \/ Lower(t.Symbol1) \in {"manfee", "manrfee"} /\ t.SecurityID2 # None
    \/ Lower(t.Symbol1) = "cust"
    \/ t.Symbol1 = "income" /\ t.Symbol2 = "cash" /\ t.SecTypeBaseCode2 = "aw"

\* C17: a dp/wd is kept by the wash-security rule only if its lowercase Symbol2
\* is exactly client, whnrtax or whfedtax, or its Symbol1 is one of the fee,
\* custodian or income/cash patterns; every other dp/wd, one with an empty or
\* fragmentary symbol included, is signalled for removal, which is not an error.
C17_UnknownWashRemoved ==
    Ran("massage_deposits_withdrawals") =>
       /\ ret[1].signal = "none" => KnownWashPattern(arg)
       /\ ~KnownWashPattern(arg) => ret[1].signal = "remove"

NonZero(x) == x.kind = "num" /\ x.n # 0

Domestic(t) == /\ "NetDividend" \in DOMAIN t /\ t.NetDividend = t.TradeAmount
               /\ "NetEligDividend" \in DOMAIN t /\ t.NetEligDividend = t.TradeAmount
Foreign(t)  == "NetFgnIncome" \in DOMAIN t /\ t.NetFgnIncome = t.TradeAmount

\* C19: for a dv, TotalIncome becomes TradeAmount; the amount goes to NetDividend
\* and NetEligDividend exactly when the security's principal currency is the
\* portfolio's reporting currency, to NetFgnIncome otherwise, never to both.
C19_DividendBuckets ==
    (Ran("attribute_distribution") /\ arg.TransactionCode = "dv") =>
       LET t == ret[1].txn
       IN  /\ t.TotalIncome = arg.TradeAmount
           /\ Domestic(t) <=>
                 arg.PrincipalCurrencyISOCode1 = arg.ReportingCurrencyISOCode
           /\ Foreign(t) <=>
                 arg.PrincipalCurrencyISOCode1 # arg.ReportingCurrencyISOCode
           /\ ~("NetDividend" \in DOMAIN t /\ "NetFgnIncome" \in DOMAIN t)

\* A paydown or interest on a cm/vm security that trades and settles the same day.
CouponCase(t) ==
    /\ t.SecTypeBaseCode1 \in {"cm", "vm"}
    /\ t.TransactionCode \in {"pd", "in"}
    /\ t.TradeDate = t.SettleDate

\* C20: in the coupon case the settle date moves to TradeDate + CouponDelayDays1
\* when the security's delay is positive and not the special value 253; when it
\* is 253 the flag UseSecTypeForCouponDelayDays1 is set and the settle date stays;
\* in no other case does the settle date change.
C20_SentinelDelayNotApplied ==
    Ran("coupon_delay") =>
       LET t == ret[1].txn
       IN  IF CouponCase(arg.txn) /\ arg.days > 0 /\ arg.days # UseSecTypeValue
           THEN t.SettleDate = arg.txn.TradeDate + arg.days
           ELSE /\ t.SettleDate = arg.txn.SettleDate
                /\ arg.days = UseSecTypeValue =>
                      /\ "UseSecTypeForCouponDelayDays1" \in DOMAIN t
                      /\ t.UseSecTypeForCouponDelayDays1

\* The coupon case with the special value: flag set, settle date unchanged.
C20_Witness ==
    /\ Ran("coupon_delay")
    /\ CouponCase(arg.txn)
    /\ arg.days = UseSecTypeValue
    /\ ret[1].txn.UseSecTypeForCouponDelayDays1
    /\ ret[1].txn.SettleDate = arg.txn.SettleDate

(***************************************************************************)
(* Properties of the lineage, of the cleanups and of the pass as a whole.  *)
(***************************************************************************)
Lineage(t) == IF "lw_lineage" \in DOMAIN t THEN t.lw_lineage ELSE <<>>
IsPrefix(a, b) == Len(a) <= Len(b) /\ SubSeq(b, 1, Len(a)) = a

\* The rules that take one transaction and hand back an Outcome.
TxnRules == {"massage_fi_maturities", "massage_deposits_withdrawals", "assign_fx_rate",
             "attribute_distribution", "cleanup"}

RowWithKey(txns, key) == txns[CHOOSE i \in 1..Len(txns) : txns[i].LocalTranKey = key]

\* The transaction an output row of the aggregation continues: the row itself, or
\* for an aggregate the first leg of its group.
Continues(t) == IF IsAggregate(t) THEN t.All_LocalTranKeys[1] ELSE t.LocalTranKey

\* C21: the lineage of a transaction only grows: whatever a rule, the split, the
\* aggregation step or the cleanup pass does to a transaction, the lineage it had
\* before is a prefix of the lineage it has afterwards; the interest component made
\* by the split starts from the lineage of the sale, an aggregate from the lineage
\* of the first leg of its group.
C21_LineageAppendOnly ==
    /\ (fn \in TxnRules /\ ret # <<>>) =>
          /\ IsPrefix(Lineage(arg), Lineage(ret[1].txn))
          /\ \A n \in 1..Len(ret[1].new) : IsPrefix(Lineage(arg), Lineage(ret[1].new[n]))
    /\ Ran("coupon_delay") => IsPrefix(Lineage(arg.txn), Lineage(ret[1].txn))
    /\ (Ran("process") /\ ret[1].signal = "none") =>
          /\ \A k \in 1..Len(ret[1].netted) :
                IsPrefix(Lineage(RowWithKey(ret[1].merged, Continues(ret[1].netted[k]))),
                         Lineage(ret[1].netted[k]))
          /\ \A k \in 1..Len(ret[1].result) :
                IsPrefix(Lineage(ret[1].netted[k]), Lineage(ret[1].result[k]))

\* A pass in which two legs were combined into a withdrawal: the aggregate has the
\* lineage of its first leg and the note of the aggregation after it.
C21_Witness ==
    /\ Ran("process") /\ ret[1].signal = "none"
    /\ \E k \in 1..Len(ret[1].netted) :
          LET t == ret[1].netted[k]
              first == RowWithKey(ret[1].merged, Continues(t))
          IN  /\ IsAggregate(t) /\ HasNote(t, CombinedNote)
              /\ Lineage(first) # <<>>
              /\ Len(Lineage(t)) = Len(Lineage(first)) + 1

\* Attributes the summary table stores (sql_repositories.py:1044-1135).
OutputVisible == {"SettleDate", "TradeDate", "Quantity", "TradeAmount", "TradeAmountLocal",
                  "PricePerUnit", "PricePerUnitLocal", "CostPerUnit", "CostPerUnitLocal",
                  "CostBasis", "CostBasisLocal", "LocalTranKey", "TransactionName",
                  "Comment01", "TransactionCode"}

ChangedVisible(before, after) ==
    \E f \in OutputVisible :
        \/ (f \in DOMAIN before) # (f \in DOMAIN after)
        \/ f \in DOMAIN before /\ f \in DOMAIN after /\ before[f] # after[f]

Traced(before, after) ==
    ChangedVisible(before, after) => Len(Lineage(after)) > Len(Lineage(before))

\* C22: a step that changes an attribute of a transaction that the output shows
\* also appends to the lineage of that transaction: the per-transaction rules, the
\* shift of the settle date by the coupon delay among them, and the aggregation
\* step, which reverses the signs of a withdrawal and names the aggregate.
C22_ChangeLeavesLineage ==
    /\ (fn \in TxnRules /\ ret # <<>>) => Traced(arg, ret[1].txn)
    /\ Ran("coupon_delay") =>
          Traced(vSecuritySupplement(arg.txn, arg.days), ret[1].txn)
    /\ (Ran("process") /\ ret[1].signal = "none") =>
          \A k \in 1..Len(ret[1].netted) :
             Traced(RowWithKey(ret[1].merged, Continues(ret[1].netted[k])),
                    ret[1].netted[k])

\* C23: a supplementary lookup that has no row for the key of a transaction (an
\* empty SecurityID2, a currency code or a portfolio the cache does not hold) does
\* not raise; supplement returns with the transaction left without the derived
\* attributes.
C23_MissingRowDoesNotRaise == Ran("supplement") => ret[1].signal # "error"

TableEntry(table, k) == IF k \in DOMAIN table THEN <<table[k]>> ELSE <<>>

\* C24: after a refresh without criteria the cache holds exactly the rows of the
\* source, so a key the source no longer has is gone from the cache; a refresh for
\* one key changes the entry of that key only.
C24_BulkRefreshMirrorsSource ==
    Ran("refresh") =>
        /\ arg.params = <<>> => ret[1] = arg.source
        /\ arg.params # <<>> =>
              \A k \in CacheKeys \ {arg.params[1]} :
                 TableEntry(ret[1], k) = TableEntry(arg.current_data, k)

\* C25: what a pass returns for a batch does not depend on the order in which the
\* source returns the rows: neither the transactions the repository hands to the
\* engine nor the rows the engine makes of them, the aggregate of a dp/wd group
\* taking its other attributes from the leg with the smallest
\* PortfolioTransactionID.
C25_OrderIndependent ==
    /\ Ran("get") =>
          \A o \in Orders(arg.rows) :
             Range(ActivityGet([arg EXCEPT !.rows = o]).result) = Range(ret[1].result)
    /\ Ran("process") =>
          /\ \A o \in Orders(arg) : Range(process(o).result) = Range(ret[1].result)
          /\ \A k \in 1..Len(ret[1].result) :
                IsAggregate(ret[1].result[k]) =>
                   \A i \in 1..Len(ret[1].merged) :
                      ret[1].merged[i].LocalTranKey \in Range(ret[1].result[k].All_LocalTranKeys)
                         => ret[1].result[k].PortfolioTransactionID
                               <= ret[1].merged[i].PortfolioTransactionID

SuffixOf(t) == t.LocalTranKey[Len(t.LocalTranKey)]

\* C26: the rows one pass returns have pairwise distinct LocalTranKeys when the
\* source rows have pairwise distinct (PortfolioTransactionID, TranID, LotNumber):
\* a surviving source row has the suffix _A, an interest row made by the split has
\* _A_B, and an aggregate has the key of exactly one of the legs it replaces.
C26_DistinctTranKeys ==
    (Ran("process") /\ ret[1].signal = "none") =>
        LET out == ret[1].result
        IN  /\ \A i, j \in 1..Len(out) :
                  i # j => out[i].LocalTranKey # out[j].LocalTranKey
            /\ \A i \in 1..Len(out) :
                  /\ IsSynthetic(out[i]) <=> SuffixOf(out[i]) = "_A_B"
                  /\ ~IsSynthetic(out[i]) => SuffixOf(out[i]) = "_A"
                  /\ IsAggregate(out[i]) =>
                        Cardinality({k \in 1..Len(ret[1].merged) :
                                       /\ IsDpWd(ret[1].merged[k])
                                       /\ ret[1].merged[k].LocalTranKey
                                             = out[i].LocalTranKey}) = 1

\* A sale that was split and two lots of one deposit: the pass returns the sale,
\* its interest row and one aggregate.
C26_Witness ==
    /\ Ran("process") /\ ret[1].signal = "none"
    /\ \E i, j, k \in 1..Len(ret[1].result) :
          /\ IsSynthetic(ret[1].result[i])
          /\ ret[1].result[j].TransactionCode = "sl"
          /\ RowIdOf(ret[1].result[i]) = RowIdOf(ret[1].result[j])
          /\ IsAggregate(ret[1].result[k])
          /\ Len(ret[1].result[k].All_LocalTranKeys) = 2
    /\ \E a, b \in 1..Len(arg) :
          /\ a # b
          /\ arg[a].PortfolioTransactionID = arg[b].PortfolioTransactionID

\* C27: a transaction that is a dividend (TransactionCode dv) when the cleanup
\* loop reaches it leaves the loop with Quantity, PricePerUnit, CostPerUnit and
\* CostBasis all None, whatever they were before and whatever the cleanup steps
\* after null_fields_for_dv do.
C27_DividendFieldsNulled ==
    (Ran("cleanup") /\ arg.TransactionCode = "dv") =>
        \A f \in {"Quantity", "PricePerUnit", "CostPerUnit", "CostBasis"} :
            f \in DOMAIN ret[1].txn /\ ret[1].txn[f] = NoneV

\* A dividend that came with a quantity, a price and a cost basis, and went
\* through the steps after the nulling: it has its cash flow and its name.
C27_Witness ==
    /\ Ran("cleanup") /\ arg.TransactionCode = "dv"
    /\ "Quantity" \in DOMAIN arg /\ arg.Quantity = NumV(MaxAmount)
    /\ "PricePerUnit" \in DOMAIN arg /\ "CostBasis" \in DOMAIN arg
    /\ ret[1].txn.Quantity = NoneV
    /\ ret[1].txn.CashFlow = arg.TradeAmount
    /\ ret[1].txn.TransactionName = "Interest Received"
    /\ HasNote(ret[1].txn, "nulled out Quantity")

\* C30: when massage_fi_maturities splits a short-term sale before maturity, the
\* TradeAmountLocal left in the sale plus the TradeAmountLocal of the interest
\* component equals the TradeAmountLocal the sale came in with, whatever the
\* implied FX rate.
C30_LocalSplitConserves ==
    (Ran("massage_fi_maturities") /\ ret[1].signal = "add"
        /\ arg.TradeDate < arg.MaturityDate1) =>
        ret[1].txn.TradeAmountLocal + ret[1].new[1].TradeAmountLocal
           = arg.TradeAmountLocal

(***************************************************************************)
(* Properties of the event handler and of the path from an event to the    *)
(* stored output.                                                          *)
(***************************************************************************)
\* The key the handler enqueues for the event of in, if the transaction has one.
EventKey(in) ==
    LET s == EventSupplement(in.txn)
    IN  IF s.signal = "none" /\ {"portfolio_code", "trade_date"} \subseteq DOMAIN s.txn
        THEN <<s.txn.portfolio_code, s.txn.trade_date>>
        ELSE <<>>

PendingInEvery(qs, k) ==
    /\ k # <<>>
    /\ \A j \in 1..Len(EventTargetQueues) :
          \E i \in 1..Len(qs[EventTargetQueues[j]]) :
              Matches(qs[EventTargetQueues[j]][i], k[1], k[2], "PENDING")

\* C29: a transaction event is reported as handled, and its offset committed, only
\* when a PENDING item for its portfolio and trade date is in every target queue;
\* a failed or raising enqueue and a transaction without portfolio_code are
\* reported as not handled.
C29_HandledOnlyIfEnqueued ==
    Ran("handle") /\ arg.event \in TransactionEvents /\ ret[1].committed
        => PendingInEvery(ret[1].queues, EventKey(arg))

\* The half of it the code keeps: an enqueue that inserts no row is not handled.
C29_NoRowNotHandled ==
    Ran("handle") /\ arg.event \in TransactionEvents /\ EventKey(arg) # <<>>
        /\ arg.insert = "norows" /\ ~ PendingInEvery(arg.queues, EventKey(arg))
        => ~ ret[1].committed

C29_NoRowReached ==
    Ran("handle") /\ arg.event \in TransactionEvents /\ EventKey(arg) # <<>>
        /\ arg.insert = "norows" /\ ~ PendingInEvery(arg.queues, EventKey(arg))

\* No run loop is inside a pass and every queue row of k, in every queue, is at
\* SUCCESS.
Quiescent(k) ==
    /\ \A w \in DOMAIN pc : pc[w] = "idle"
    /\ \A s \in Stages : \A i \in 1..Len(queue[s]) :
          KeyOf(queue[s][i]) = k => queue[s][i].queue_status = "SUCCESS"

\* The newest source transaction of k that the rows stored by stage s come from
\* (0: the placeholder, or nothing stored).
OutVersion(s, k) ==
    LET rows == RowsFor(store[s], k)
    IN  IF rows = <<>> THEN 0
        ELSE CHOOSE n \in {rows[i].n : i \in 1..Len(rows)} :
                \A i \in 1..Len(rows) : rows[i].n <= n

\* The stages behind the event handler's queue.
EventStages == {s \in Stages : \E j \in 1..Len(EventTargetQueues) : s >= EventTargetQueues[j]}

\* C28: no source change is lost between the event handler and the engines: in
\* every quiescent state the output stored for a key was computed from source data
\* at least as new as the last event handled for the key, however the handler and
\* the run loops interleave.
C28_QuiescentOutputFresh ==
    \A k \in Keys : Quiescent(k) => \A s \in EventStages : OutVersion(s, k) >= events

\* The case of C28: an event was handled while a pass for the key had read the
\* source, and the chain came to rest afterwards.
C28_QuiescentAfterEvent == \E k \in Keys : Quiescent(k) /\ events > 0

====
